---- MODULE Spec2Model ----
(***************************************************************************)
(* A model of the CEGAR engine of cegarette_nn: the network data model,    *)
(* the abstraction engine (abstraction.py), the refinement engine          *)
(* (refine.py), the refinement policies, the CEGAR driver                  *)
(* (single_experiment.py) and update_property.                             *)
(*                                                                         *)
(* Conventions.                                                            *)
(*  - A NeuronId name is a natural number; the order of the numbers stands *)
(*    for the order of the strings.  A missing sign / scaling is "None".   *)
(*  - A table is a pandas DataFrame: a sequence of row labels (index), a   *)
(*    sequence of column labels (columns) and a matrix of values (a        *)
(*    sequence of rows), addressed by position as numpy does and by label  *)
(*    as pandas does, together with _orig_table and _abstraction_steps.    *)
(*  - Python list index i is sequence index i+1: W(net,i) is               *)
(*    net.weights[i], B(net,i) is net.biases[i].                           *)
(*  - A raised exception is the record [error |-> <exception name>].       *)
(***************************************************************************)
EXTENDS Integers, Sequences, FiniteSets, TLC

VARIABLES
    orig,       \* the original Network, before any abstraction
    net,        \* the current Network (layer specifications)
    pre,        \* the Network before the last operation
    lastOp,     \* the last operation applied: kind, layer index, step
    counter,    \* neuronid_generator: per-layer count of generated names
    uprop,      \* update_property: the property passed in
    ubefore,    \* update_property: bounds_before
    uafter,     \* update_property: bounds_after
    uresult,    \* update_property: the property returned
    pc,         \* run_experiment: the position in the loop
    status,     \* experiment_final_marabou_status
    policy,     \* the refinement policy and its parameter
    until,      \* experiment_options.refine_until_not_satisfying
    test_property,  \* the property under test
    examples,   \* all_spurious_examples_found
    query_result,   \* the last answer of the oracle
    batch,      \* refine_until_not_satisfying: the steps still to apply
    calls,      \* the number of oracle calls made
    roundNet,   \* the network on which the last spurious witness was found
    origChecks, \* the number of checks of a witness on the original network
    applied,    \* the number of steps applied by the refinement in progress
    tproperty,  \* prepare_network_for_property: the property passed in
    tresult,    \* prepare_network_for_property: the (network, property) returned
    outcome     \* the last call made with unchecked arguments and its result

layerVars == <<orig, net, pre, lastOp, counter>>
updVars == <<uprop, ubefore, uafter, uresult>>
cegarVars == <<pc, status, policy, until, test_property, examples,
               query_result, batch, calls, roundNet, origChecks, applied>>
transVars == <<tproperty, tresult>>
vars == <<layerVars, updVars, cegarVars, transVars, outcome>>

----------------------------------------------------------------------------
(* datastructures.py: NeuronId *)

NoneT == "None"

NeuronId(name, sign, scaling, original_neurons) ==
    [name |-> name, sign |-> sign, scaling |-> scaling,
     original_neurons |-> original_neurons]

UNIT == NeuronId(0, NoneT, NoneT, {})

\* neuronid_generator.py: the name "ag<layer>:<counter>", after the names
\* "a<layer><sign><scaling>" of simple_steps_generator in string order
generate_neuronid(layer, cnt, sign, scaling) ==
    NeuronId(10 * layer + cnt, sign, scaling, {})

NidType(n) == <<n.sign, n.scaling>>

\* equality of all four fields
NidSame(a, b) == a = b

\* NeuronId.__eq__: name and type, never the provenance
NidEq(a, b) == a.name = b.name /\ NidType(a) = NidType(b)

\* the str-Enum values compare as strings: "Neg" < "Pos", "Dec" < "Inc"
TagRank(t) == CASE t = "Neg" -> 1 [] t = "Pos" -> 2
                [] t = "Dec" -> 1 [] t = "Inc" -> 2 [] OTHER -> 0

\* NeuronId.__lt__: (name, type) < (other.name, other.type)
NidLt(a, b) ==
    \/ a.name < b.name
    \/ /\ a.name = b.name
       /\ \/ TagRank(a.sign) < TagRank(b.sign)
          \/ /\ TagRank(a.sign) = TagRank(b.sign)
             /\ TagRank(a.scaling) < TagRank(b.scaling)

\* a < b as Python evaluates it: the tuples (name, (sign, scaling)) are
\* compared, and the first components that differ are compared with <,
\* which raises when one of them is None
NidLtResult(a, b) ==
    IF /\ a.name = b.name
       /\ \/ a.sign # b.sign /\ NoneT \in {a.sign, b.sign}
          \/ /\ a.sign = b.sign /\ a.scaling # b.scaling
             /\ NoneT \in {a.scaling, b.scaling}
    THEN [error |-> "TypeError"]
    ELSE [value |-> NidLt(a, b)]

\* the __hash__ the frozen dataclass generates: the hash of the tuple of the
\* fields that take part in comparison, the name alone
NidHash(n) == <<n.name>>

\* `n in collection` for a collection of NeuronIds (hash and __eq__)
NidIn(n, S) == \E m \in S : NidEq(n, m)

Range(s) == {s[i] : i \in DOMAIN s}

----------------------------------------------------------------------------
(* datastructures.py: WeightsTable / BiasTable *)

NoTable == [none |-> TRUE]

Err(kind) == [error |-> kind]
IsErr(v) == "error" \in DOMAIN v

\* WeightsTable.__init__ on a DataFrame: no origin, no abstraction steps
WeightsTable(index, columns, values) ==
    [index |-> index, columns |-> columns, values |-> values,
     orig |-> NoTable, steps |-> <<>>]

\* position of a label of an axis (pandas label lookup), 0 when absent
PosOf(labels, n) ==
    IF \E i \in DOMAIN labels : NidEq(labels[i], n)
    THEN CHOOSE i \in DOMAIN labels :
            /\ NidEq(labels[i], n)
            /\ \A j \in DOMAIN labels : NidEq(labels[j], n) => i <= j
    ELSE 0

HasLabel(labels, n) == PosOf(labels, n) # 0

\* WeightsTable.__getitem__: self.table.loc[src][dest]
TableGet(t, src, dest) == t.values[PosOf(t.index, src)][PosOf(t.columns, dest)]

Srcs(t) == t.index
Dests(t) == t.columns
Ids(b) == b.columns

\* positions of an axis in sort_index order (stable on equal labels)
RECURSIVE SortPerm(_, _)
SortPerm(labels, rest) ==
    IF rest = {} THEN <<>>
    ELSE LET m == CHOOSE i \in rest : \A j \in rest \ {i} :
                     \/ NidLt(labels[i], labels[j])
                     \/ (~NidLt(labels[j], labels[i]) /\ i < j)
         IN  <<m>> \o SortPerm(labels, rest \ {m})

Permute(s, p) == [k \in DOMAIN p |-> s[p[k]]]

\* the subsequence of s at the positions that satisfy keep
RECURSIVE KeepPos(_, _, _)
KeepPos(s, keepSet, i) ==
    IF i > Len(s) THEN <<>>
    ELSE (IF i \in keepSet THEN <<s[i]>> ELSE <<>>) \o KeepPos(s, keepSet, i + 1)

\* builtin max / min / sum over a non-empty sequence of numbers
RECURSIVE FoldMax(_)
FoldMax(s) ==
    IF Len(s) = 1 THEN s[1]
    ELSE LET r == FoldMax(Tail(s)) IN IF s[1] >= r THEN s[1] ELSE r

RECURSIVE FoldMin(_)
FoldMin(s) ==
    IF Len(s) = 1 THEN s[1]
    ELSE LET r == FoldMin(Tail(s)) IN IF s[1] <= r THEN s[1] ELSE r

RECURSIVE FoldSum(_)
FoldSum(s) == IF s = <<>> THEN 0 ELSE s[1] + FoldSum(Tail(s))

----------------------------------------------------------------------------
(* abstraction.py: AbstractionStep *)

First(s) == s[1]

\* AbstractionStep.__init__ with new_name a str: the type of the first node
AbstractionStepFromStr(new_name_str, nodes) ==
    IF Len(nodes) < 2 THEN Err("ValueError")
    ELSE [new_name |-> NeuronId(new_name_str, First(nodes).sign,
                                First(nodes).scaling, Range(nodes)),
          nodes |-> nodes]

\* AbstractionStep.__init__ with new_name a NeuronId: its type must be the
\* type of the first node; the provenance is frozenset(nodes)
AbstractionStepFromId(new_name, nodes) ==
    IF Len(nodes) < 2 THEN Err("ValueError")
    ELSE IF NidType(new_name) # NidType(First(nodes)) THEN Err("ValueError")
    ELSE [new_name |-> NeuronId(new_name.name, new_name.sign,
                                new_name.scaling, Range(nodes)),
          nodes |-> nodes]

(* abstraction.py: the three table abstractions *)

\* positions of the labels of an axis that are among `nodes`
NodePositions(labels, nodes) ==
    {i \in DOMAIN labels : NidIn(labels[i], Range(nodes))}

AllPresent(labels, nodes) ==
    \A k \in DOMAIN nodes : HasLabel(labels, nodes[k])

\* min whatever the scaling
AggregationMin(scaling, s) == FoldMin(s)

\* min and max exchanged
AggregationSwapped(scaling, s) ==
    IF scaling = "Inc" THEN FoldMin(s) ELSE FoldMax(s)

\* aggregation of the incoming edges / biases: max for Inc, otherwise min
AggregationFunc(scaling, s) ==
    IF scaling = "Inc" THEN FoldMax(s) ELSE FoldMin(s)

\* the origin is overwritten by every abstraction
OriginLatest(t) == t

OriginOf(t) == IF t.orig = NoTable THEN t ELSE t.orig

\* axis = 1: the step's nodes are columns of the table
AbstractColumns(t, step) ==
    IF ~AllPresent(t.columns, step.nodes) THEN Err("KeyError")
    ELSE
    LET scaling == First(step.nodes).scaling
        sel     == [k \in DOMAIN step.nodes |-> PosOf(t.columns, step.nodes[k])]
        keep    == DOMAIN t.columns \ NodePositions(t.columns, step.nodes)
        abstracted == [r \in DOMAIN t.values |->
                         AggregationFunc(scaling,
                             [k \in DOMAIN sel |-> t.values[r][sel[k]]])]
        cols    == KeepPos(t.columns, keep, 1) \o <<step.new_name>>
        rows    == [r \in DOMAIN t.values |->
                         KeepPos(t.values[r], keep, 1) \o <<abstracted[r]>>]
        perm    == SortPerm(cols, DOMAIN cols)
    IN  [index   |-> t.index,
         columns |-> Permute(cols, perm),
         values  |-> [r \in DOMAIN rows |-> Permute(rows[r], perm)],
         orig    |-> OriginOf(t),
         steps   |-> Append(t.steps, [axis |-> 1, step |-> step])]

_abstract_weights_as_incoming(incoming, step) == AbstractColumns(incoming, step)

\* axis = 0: the step's nodes are rows of the table; the rows are summed
_abstract_weights_as_outgoing(outgoing, step) ==
    IF ~AllPresent(outgoing.index, step.nodes) THEN Err("KeyError")
    ELSE
    LET sel   == [k \in DOMAIN step.nodes |-> PosOf(outgoing.index, step.nodes[k])]
        keep  == DOMAIN outgoing.index \ NodePositions(outgoing.index, step.nodes)
        abstracted == [c \in DOMAIN outgoing.columns |->
                         FoldSum([k \in DOMAIN sel |-> outgoing.values[sel[k]][c]])]
        idx   == KeepPos(outgoing.index, keep, 1) \o <<step.new_name>>
        rows  == KeepPos(outgoing.values, keep, 1) \o <<abstracted>>
        perm  == SortPerm(idx, DOMAIN idx)
    IN  [index   |-> Permute(idx, perm),
         columns |-> outgoing.columns,
         values  |-> Permute(rows, perm),
         orig    |-> OriginOf(outgoing),
         steps   |-> Append(outgoing.steps, [axis |-> 0, step |-> step])]

\* the biases abstracted without an entry in the history
AbstractBiasesUnrecorded(biases, step) ==
    LET r == AbstractColumns(biases, step)
    IN  IF IsErr(r) THEN r ELSE [r EXCEPT !.steps = biases.steps]

\* the biases abstracted, with the operand recorded as the origin
AbstractBiasesFromOperand(biases, step) ==
    LET r == AbstractColumns(biases, step)
    IN  IF IsErr(r) THEN r ELSE [r EXCEPT !.orig = biases]

_abstract_biases(biases, step) == AbstractColumns(biases, step)

Layer3(incoming, outgoing, biases) ==
    [incoming |-> incoming, outgoing |-> outgoing, biases |-> biases]

\* abstract_layer: the two asserts on the first node, then the three tables
abstract_layer(incoming, outgoing, biases, step) ==
    IF First(step.nodes).sign = NoneT \/ First(step.nodes).scaling = NoneT
    THEN Err("AssertionError")
    ELSE LET i == _abstract_weights_as_incoming(incoming, step)
             o == _abstract_weights_as_outgoing(outgoing, step)
             b == _abstract_biases(biases, step)
         IN  IF IsErr(i) THEN i ELSE IF IsErr(o) THEN o ELSE IF IsErr(b) THEN b
             ELSE Layer3(i, o, b)

----------------------------------------------------------------------------
(* refine.py: RefinementStep, step_without, _filter_abstraction_steps,
   refine_layer *)

\* RefinementStep(target_neuron, parts): parts_none is `parts is None`
RefinementStep(target_neuron, parts) ==
    [target_neuron |-> target_neuron, parts |-> parts, parts_none |-> FALSE]

RefinementStepAll(target_neuron) ==
    [target_neuron |-> target_neuron, parts |-> <<>>, parts_none |-> TRUE]

NoStep == [none |-> TRUE]

\* a step that loses a node is dropped whole
step_dropped(step, to_discard) ==
    IF \E k \in DOMAIN step.nodes : NidIn(step.nodes[k], to_discard)
    THEN [none |-> TRUE] ELSE step

\* the nodes with nothing discarded
RestNodesAll(nodes, to_discard) == nodes

\* [n for n in nodes if n not in to_discard]
RECURSIVE RestNodes(_, _)
RestNodes(nodes, to_discard) ==
    IF nodes = <<>> THEN <<>>
    ELSE (IF NidIn(nodes[1], to_discard) THEN <<>> ELSE <<nodes[1]>>)
         \o RestNodes(Tail(nodes), to_discard)

step_without(step, to_discard) ==
    LET rest_nodes == RestNodes(step.nodes, to_discard)
    IN  IF Len(rest_nodes) > 1
        THEN AbstractionStepFromId(step.new_name, rest_nodes)
        ELSE NoStep

\* the loop of _filter_abstraction_steps from history position i on, with
\* the discard set and the kept steps so far
RECURSIVE FilterFrom(_, _, _, _, _)
FilterFrom(history, i, to_discard, axis, new_steps) ==
    IF i > Len(history) THEN [raised |-> FALSE, steps |-> new_steps]
    ELSE IF history[i].axis = axis
    THEN LET s == step_without(history[i].step, to_discard)
         IN  IF IsErr(s) THEN [raised |-> TRUE, steps |-> <<>>]
             ELSE IF s # NoStep
             THEN FilterFrom(history, i + 1, to_discard, axis,
                             Append(new_steps, [axis |-> axis, step |-> s]))
             ELSE FilterFrom(history, i + 1,
                             to_discard \cup {history[i].step.new_name},
                             axis, new_steps)
    ELSE FilterFrom(history, i + 1, to_discard, axis,
                    Append(new_steps, history[i]))

\* every entry dropped
filter_dropping_all(weights, to_discard, axis) ==
    [raised |-> FALSE, steps |-> <<>>]

\* the entries of the other axis filtered
filter_other_axis(weights, to_discard, axis) ==
    FilterFrom(weights.steps, 1, to_discard, 1 - axis, <<>>)

\* the result is [raised, steps]: raised when AbstractionStep.__init__ raised
_filter_abstraction_steps(weights, to_discard, axis) ==
    FilterFrom(weights.steps, 1, to_discard, axis, <<>>)

\* the replay loops of refine_layer: from table t, the steps from position i
RECURSIVE ReplayWeights(_, _, _)
ReplayWeights(t, steps, i) ==
    IF i > Len(steps) THEN t
    ELSE IF IsErr(t) THEN t
    ELSE IF t = NoTable THEN Err("AttributeError")
    ELSE ReplayWeights(
            IF steps[i].axis = 0
            THEN _abstract_weights_as_outgoing(t, steps[i].step)
            ELSE _abstract_weights_as_incoming(t, steps[i].step),
            steps, i + 1)

RECURSIVE ReplayBiases(_, _, _)
ReplayBiases(t, steps, i) ==
    IF i > Len(steps) THEN t
    ELSE IF IsErr(t) THEN t
    ELSE IF t = NoTable THEN Err("AttributeError")
    ELSE ReplayBiases(_abstract_biases(t, steps[i].step), steps, i + 1)

refine_layer(incoming, outgoing, biases, step) ==
    IF ~HasLabel(outgoing.index, step.target_neuron) THEN Err("KeyError")
    ELSE
    LET target_neuron == outgoing.index[PosOf(outgoing.index, step.target_neuron)]
        new_ids == IF ~step.parts_none /\ step.parts # <<>>
                   THEN Range(step.parts)
                   ELSE target_neuron.original_neurons
        incoming_new_steps == _filter_abstraction_steps(incoming, new_ids, 1)
        outgoing_new_steps == _filter_abstraction_steps(outgoing, new_ids, 0)
        biases_new_steps   == _filter_abstraction_steps(biases, new_ids, 1)
    IN  IF \/ incoming_new_steps.raised \/ outgoing_new_steps.raised
           \/ biases_new_steps.raised
        THEN Err("ValueError")
        ELSE LET i == ReplayWeights(incoming.orig, incoming_new_steps.steps, 1)
                 o == ReplayWeights(outgoing.orig, outgoing_new_steps.steps, 1)
                 b == ReplayBiases(biases.orig, biases_new_steps.steps, 1)
             IN  IF IsErr(i) THEN i ELSE IF IsErr(o) THEN o
                 ELSE IF IsErr(b) THEN b ELSE Layer3(i, o, b)

----------------------------------------------------------------------------
(* datastructures.py: Network *)

Network(weights, biases, activations) ==
    [weights |-> weights, biases |-> biases, activations |-> activations]

W(n, i) == n.weights[i + 1]
B(n, i) == n.biases[i + 1]

layers_count(n) == Len(n.weights) + 1

\* the neurons of layer i: the ids of biases[i]
LayerIds(n, i) == Range(Ids(B(n, i)))

IsAbstract(nid) == nid.original_neurons # {}

\* the two weights tables assigned, the biases left as they were
WithLayerKeepingBiases(n, layer_index, layer) ==
    [n EXCEPT !.weights = [n.weights EXCEPT ![layer_index] = layer.incoming,
                                            ![layer_index + 1] = layer.outgoing]]

\* new_weights[layer_index - 1], new_weights[layer_index],
\* new_biases[layer_index] = <the three tables of `layer`>
WithLayer(n, layer_index, layer) ==
    [n EXCEPT !.weights = [n.weights EXCEPT ![layer_index] = layer.incoming,
                                            ![layer_index + 1] = layer.outgoing],
              !.biases  = [n.biases EXCEPT ![layer_index + 1] = layer.biases]]

LayerOf(n, layer_index) ==
    Layer3(W(n, layer_index - 1), W(n, layer_index), B(n, layer_index))

\* one AbstractionStep of abstract_network / refine_network on a layer
AbstractNetworkStep(n, layer_index, step) ==
    IF layer_index <= 1 \/ layer_index >= layers_count(n) - 1
    THEN Err("ValueError")
    ELSE LET l == LayerOf(n, layer_index)
             r == abstract_layer(l.incoming, l.outgoing, l.biases, step)
         IN  IF IsErr(r) THEN r ELSE WithLayer(n, layer_index, r)

\* one RefinementStep of refine_network on a layer
RefineNetworkStep(n, layer_index, step) ==
    LET l == LayerOf(n, layer_index)
        r == refine_layer(l.incoming, l.outgoing, l.biases, step)
    IN  IF IsErr(r) THEN r ELSE WithLayer(n, layer_index, r)

\* (a == b).all() for two label sequences
SameLabels(x, y) ==
    Len(x) = Len(y) /\ \A k \in DOMAIN x : NidEq(x[k], y[k])

\* Network.verify
verify(n) ==
    /\ \A i \in 1..(Len(n.weights) - 1) :
          SameLabels(Dests(n.weights[i]), Srcs(n.weights[i + 1]))
    /\ \A i \in DOMAIN n.weights :
          SameLabels(Srcs(n.weights[i]), Ids(n.biases[i]))
    /\ SameLabels(Dests(n.weights[Len(n.weights)]),
                  Ids(n.biases[Len(n.biases)]))

\* ActivationFunction: Id and ReLU
Activate(act, x) == IF act = "ReLU" /\ x < 0 THEN 0 ELSE x

\* current_values @ w.table.values + b.table.values, by position
Affine(current_values, w, b) ==
    [c \in DOMAIN w.columns |->
        FoldSum([r \in DOMAIN w.index |-> current_values[r] * w.values[r][c]])
        + b.values[1][c]]

\* Network.evaluate from layer i on (the zip over weights and biases[1:])
RECURSIVE EvaluateFrom(_, _, _)
EvaluateFrom(n, i, current_values) ==
    IF i > Len(n.weights) THEN current_values
    ELSE LET z == Affine(current_values, n.weights[i], n.biases[i + 1])
         IN  EvaluateFrom(n, i + 1,
                 [c \in DOMAIN z |-> Activate(n.activations[i + 1], z[c])])

\* Network.evaluate(inputs): inputs is the input vector in input_ids order
evaluate(n, inputs) ==
    EvaluateFrom(n, 1,
        [c \in DOMAIN inputs |->
            Activate(n.activations[1], inputs[c] + n.biases[1].values[1][c])])

\* the values of the layers i+1.. of Network.evaluate with
\* return_intermediate, from the values of layer i
RECURSIVE AllValuesFrom(_, _, _)
AllValuesFrom(n, i, current_values) ==
    IF i > Len(n.weights) THEN <<>>
    ELSE LET z == Affine(current_values, n.weights[i], n.biases[i + 1])
             v == [c \in DOMAIN z |-> Activate(n.activations[i + 1], z[c])]
         IN  <<v>> \o AllValuesFrom(n, i + 1, v)

\* Network.evaluate(inputs, return_as_dict=True, return_intermediate=True):
\* the dict NeuronId -> value over all layers (the input layer holds the
\* inputs as given)
evaluate_intermediate(n, inputs) ==
    LET all_values ==
            <<inputs>> \o AllValuesFrom(n, 1,
                [c \in DOMAIN inputs |->
                    Activate(n.activations[1],
                             inputs[c] + n.biases[1].values[1][c])])
    IN  [x \in UNION {LayerIds(n, l) : l \in 0..(layers_count(n) - 1)} |->
            LET l == CHOOSE l \in 0..(layers_count(n) - 1) :
                         x \in LayerIds(n, l)
            IN  all_values[l + 1][PosOf(Ids(B(n, l)), x)]]

----------------------------------------------------------------------------
(* basic_property.py *)

LowerBound(nid, lower) == [kind |-> "LowerBound", nid |-> nid, bound |-> lower]
UpperBound(nid, upper) == [kind |-> "UpperBound", nid |-> nid, bound |-> upper]

BasicProperty(input_constraints, output_constraints) ==
    [input_constraints |-> input_constraints,
     output_constraints |-> output_constraints]

\* compare_with_precision: a difference below eps = 1e-4 is "equal".  The
\* values of the model are integers, so a difference below eps is zero.
lt_with_precision(a, b) == IF a - b = 0 THEN FALSE ELSE a - b < 0
gt_with_precision(a, b) == IF a - b = 0 THEN FALSE ELSE a - b > 0

\* values: the dict ids[k] -> vals[k]
is_constraint_satisfied(ids, vals, constraint) ==
    LET value == vals[PosOf(ids, constraint.nid)]
    IN  IF constraint.kind = "LowerBound"
        THEN ~lt_with_precision(value, constraint.bound)
        ELSE ~gt_with_precision(value, constraint.bound)

are_constraints_satisfied(ids, vals, constraints) ==
    \A k \in DOMAIN constraints :
        is_constraint_satisfied(ids, vals, constraints[k])

input_ids(n) == Ids(n.biases[1])
output_ids(n) == Dests(n.weights[Len(n.weights)])

\* is_satisfying_assignment(net, values, test_property), verify_input = True
is_satisfying_assignment(n, values, property) ==
    IF ~are_constraints_satisfied(input_ids(n), values,
                                  property.input_constraints)
    THEN FALSE
    ELSE are_constraints_satisfied(output_ids(n), evaluate(n, values),
                                   property.output_constraints)

----------------------------------------------------------------------------
(* update_property.py *)

Max2(a, b) == IF a >= b THEN a ELSE b
Min2(a, b) == IF a <= b THEN a ELSE b

\* the shifted bound without the clamp to the input bound
UnclampedBound(output_constraint, bound_diff) ==
    [output_constraint EXCEPT !.bound = @ + bound_diff]

\* the body of the loop of update_property: the new constraint
UpdatedConstraint(output_constraint, bound_diff) ==
    IF output_constraint.kind = "LowerBound"
    THEN [output_constraint EXCEPT
             !.bound = Max2(output_constraint.bound + bound_diff,
                            output_constraint.bound)]
    ELSE [output_constraint EXCEPT
             !.bound = Min2(output_constraint.bound + bound_diff,
                            output_constraint.bound)]

\* bounds_before / bounds_after: NeuronId -> [min, max]
update_property(property, bounds_before, bounds_after) ==
    LET output_bounds_before ==
            [k \in DOMAIN property.output_constraints |->
                bounds_before[property.output_constraints[k].nid]]
        output_bounds_after ==
            [k \in DOMAIN property.output_constraints |->
                bounds_after[property.output_constraints[k].nid]]
        bound_diffs ==
            [k \in DOMAIN property.output_constraints |->
                output_bounds_after[k].min - output_bounds_before[k].max]
    IN  [property EXCEPT !.output_constraints =
            [k \in DOMAIN property.output_constraints |->
                UpdatedConstraint(property.output_constraints[k],
                                  bound_diffs[k])]]

----------------------------------------------------------------------------
\* preprocess.py: what preprocess leaves of a hidden layer.  A Pos neuron
\* keeps the edges >= 0 and a Neg neuron the edges <= 0; an Inc neuron keeps
\* the increasing edges (to Inc if Pos, to Dec if Neg), a Dec neuron the
\* decreasing ones (to Inc if Neg, to Dec if Pos); a neuron without outgoing
\* edges is discarded; the outputs are Inc.
IsPreprocessedLayer(outgoing) ==
    \A r \in DOMAIN outgoing.index :
        LET n == outgoing.index[r]
        IN  /\ n.sign # NoneT /\ n.scaling # NoneT
            /\ \E c \in DOMAIN outgoing.columns : outgoing.values[r][c] # 0
            /\ \A c \in DOMAIN outgoing.columns :
                  LET d == outgoing.columns[c]
                      w == outgoing.values[r][c]
                      increasing == \/ d.scaling = "Inc" /\ n.sign = "Pos"
                                    \/ d.scaling = "Dec" /\ n.sign = "Neg"
                      decreasing == \/ d.scaling = "Inc" /\ n.sign = "Neg"
                                    \/ d.scaling = "Dec" /\ n.sign = "Pos"
                  IN  /\ n.sign = "Pos" => w >= 0
                      /\ n.sign = "Neg" => w <= 0
                      /\ n.scaling = "Inc" /\ ~increasing => w = 0
                      /\ n.scaling = "Dec" /\ ~decreasing => w = 0

IsPreprocessed(n) ==
    /\ \A k \in DOMAIN output_ids(n) : output_ids(n)[k].scaling = "Inc"
    /\ \A i \in 2..(layers_count(n) - 2) : IsPreprocessedLayer(W(n, i))

----------------------------------------------------------------------------
(* The networks under analysis: five layers, the hidden layers 2 and 3
   classified as preprocess.py leaves them.  Layer 2 is kept in an order
   that is not the sorted one. *)

MaxGenerated == 3
InputValues == {-2, 0, 1, 3}

Plain(name) == NeuronId(name, NoneT, NoneT, {})
NegInc(name) == NeuronId(name, "Neg", "Inc", {})
PosInc(name) == NeuronId(name, "Pos", "Inc", {})
NegDec(name) == NeuronId(name, "Neg", "Dec", {})

IdsLayer0 == <<Plain(1)>>
IdsLayer1 == <<Plain(15), Plain(16)>>
IdsLayer2 == <<NegInc(26), NegInc(25), PosInc(28), NegInc(27)>>
IdsLayer3 == <<NegDec(35), NegDec(36), PosInc(37)>>
IdsLayer4 == <<NeuronId(45, NoneT, "Inc", {})>>

BiasTable(ids, values) == WeightsTable(<<UNIT>>, ids, <<values>>)

OriginalNetwork(a, b, c) ==
    Network(
        << WeightsTable(IdsLayer0, IdsLayer1, << <<1, -1>> >>),
           WeightsTable(IdsLayer1, IdsLayer2, << <<2, a, 1, -1>>,
                                           <<-1, 3, 2, 1>> >>),
           WeightsTable(IdsLayer2, IdsLayer3, << <<-1, -2, 0>>,
                                           << c, -1, 0>>,
                                           << 0,  0, 2>>,
                                           <<-2,  0, 0>> >>),
           WeightsTable(IdsLayer3, IdsLayer4, << <<-1>>, <<-2>>, <<1>> >>) >>,
        << BiasTable(IdsLayer0, <<0>>),
           BiasTable(IdsLayer1, <<0, 1>>),
           BiasTable(IdsLayer2, <<0, b, -1, 1>>),
           BiasTable(IdsLayer3, <<20, 16, 0>>),
           BiasTable(IdsLayer4, <<0>>) >>,
        <<"Id", "ReLU", "ReLU", "ReLU", "Id">>)

OriginalNetworks ==
    {n \in {OriginalNetwork(a, b, c) :
                a \in {-2, 1}, b \in {0, 3}, c \in {-3, 0}} :
        IsPreprocessed(n)}

\* a set of NeuronIds as a list in sorted order
RECURSIVE SortedSeq(_)
SortedSeq(S) ==
    IF S = {} THEN <<>>
    ELSE LET m == CHOOSE x \in S : \A y \in S \ {x} : NidLt(x, y)
         IN  <<m>> \o SortedSeq(S \ {m})

SameType(G) == \A x, y \in G : NidType(x) = NidType(y)

\* a network whose layer-2 neurons 25, 26, 27 have equal outgoing weights
TiedNetwork ==
    LET n == OriginalNetwork(1, 0, -3)
    IN  [n EXCEPT !.weights[3].values = << <<-1, -2, 0>>,
                                           <<-1, -2, 0>>,
                                           << 0,  0, 2>>,
                                           <<-1, -2, 0>> >>]

\* abstraction_strategies.py, group_by_type: the groups of one type
group_by_type(neuron_ids) ==
    {{x \in neuron_ids : NidType(x) = t} : t \in {NidType(y) : y \in neuron_ids}}

\* simple_steps_generator: the name "a<layer><sign><scaling>"; the model's
\* layers hold at most one group of two or more neurons
SimpleName(layer_index) == 10 * layer_index

\* abstract_network with the steps of simple_steps_generator for the layers
\* of layers_order
RECURSIVE abstract_network(_, _)
abstract_network(n, layers_order) ==
    IF layers_order = <<>> THEN n
    ELSE LET layer_index == layers_order[1]
             groups == {G \in group_by_type(LayerIds(n, layer_index)) :
                           Cardinality(G) >= 2}
         IN  IF groups = {} THEN abstract_network(n, Tail(layers_order))
             ELSE LET G == CHOOSE G \in groups : TRUE
                  IN  abstract_network(
                          AbstractNetworkStep(n, layer_index,
                              AbstractionStepFromStr(SimpleName(layer_index),
                                                     SortedSeq(G))),
                          Tail(layers_order))

CompleteAbstractionLeftToRight(n) == abstract_network(n, <<2, 3>>)
CompleteAbstractionRightToLeft(n) == abstract_network(n, <<3, 2>>)

NoOp ==[kind |-> "init", layer |-> 0, step |-> NoStep]
NoProperty == [none |-> TRUE]
NoBounds == [none |-> TRUE]
NoResult == [none |-> TRUE]

\* no property transform and no unchecked call has been made
TransIdle ==
    tproperty = NoProperty /\ tresult = NoResult /\ outcome = NoResult

\* the driver's variables while no experiment runs
CegarIdle ==
    /\ pc = "idle" /\ status = "UNKNOWN"
    /\ policy = [name |-> "none", k |-> 0] /\ until = FALSE
    /\ test_property = NoProperty /\ examples = <<>>
    /\ query_result = NoResult /\ batch = <<>> /\ calls = 0
    /\ roundNet = NoTable /\ origChecks = 0 /\ applied = 0

Init ==
    /\ orig \in OriginalNetworks
    /\ net = orig
    /\ pre = orig
    /\ lastOp = NoOp
    /\ counter = [l \in 2..3 |-> 1]
    /\ uprop = NoProperty /\ uresult = NoProperty
    /\ ubefore = NoBounds /\ uafter = NoBounds
    /\ CegarIdle /\ TransIdle

\* abstract_network with a one-step strategy: a group of same-typed neurons
\* of one hidden layer is merged under a generated name
AbstractLayerAct ==
    \E layer_index \in 2..(layers_count(net) - 2) :
    \E G \in SUBSET LayerIds(net, layer_index) :
        /\ Cardinality(G) >= 2
        /\ SameType(G)
        /\ counter[layer_index] <= MaxGenerated
        /\ LET new_name == generate_neuronid(layer_index,
                               counter[layer_index],
                               First(SortedSeq(G)).sign,
                               First(SortedSeq(G)).scaling)
               step == AbstractionStepFromId(new_name, SortedSeq(G))
               r == AbstractNetworkStep(net, layer_index, step)
           IN  /\ ~IsErr(r)
               /\ net' = r
               /\ pre' = net
               /\ lastOp' = [kind |-> "abstract", layer |-> layer_index,
                             step |-> step]
        /\ counter' = [counter EXCEPT ![layer_index] = @ + 1]
        /\ UNCHANGED <<orig, updVars, transVars, outcome, cegarVars>>

\* refine_network with a one-step strategy: an abstract neuron of a hidden
\* layer is refined, wholly (parts = None) or by a non-empty subset of its
\* provenance
RefineLayerAct ==
    \E layer_index \in 2..(layers_count(net) - 2) :
    \E target \in {x \in LayerIds(net, layer_index) : IsAbstract(x)} :
    \E step \in {RefinementStepAll(target)} \cup
                {RefinementStep(target, SortedSeq(P)) :
                    P \in SUBSET target.original_neurons \ {{}}} :
        LET r == RefineNetworkStep(net, layer_index, step)
        IN  /\ ~IsErr(r)
            /\ net' = r
            /\ pre' = net
            /\ lastOp' = [kind |-> "refine", layer |-> layer_index,
                          step |-> step]
            /\ UNCHANGED <<orig, counter, updVars, transVars, outcome, cegarVars>>

Next == AbstractLayerAct \/ RefineLayerAct

Spec == Init /\ [][Next]_vars

----------------------------------------------------------------------------
(* refinement_utils.py and refinement_strategies.py *)

Abs(x) == IF x < 0 THEN -x ELSE x

\* sum of f[x] over the finite set S
RECURSIVE SumOver(_, _)
SumOver(S, f) ==
    IF S = {} THEN 0
    ELSE LET x == CHOOSE y \in S : TRUE IN f[x] + SumOver(S \ {x}, f)

\* network_abstracted_neurons: the pairs (layer, neuron) of the layers
\* 2..layers_count()-2 whose neuron has a provenance
network_abstracted_neurons(n) ==
    UNION {{[layer |-> l, a |-> x] :
                x \in {y \in LayerIds(n, l) : IsAbstract(y)}} :
           l \in 2..(layers_count(n) - 2)}

\* the keys of original_to_abstract_mapping
MappedOriginals(n) ==
    UNION {la.a.original_neurons : la \in network_abstracted_neurons(n)}

\* original_to_abstract_mapping: original neuron -> (layer, abstract neuron)
original_to_abstract_mapping(n) ==
    [o \in MappedOriginals(n) |->
        CHOOSE la \in network_abstracted_neurons(n) :
            o \in la.a.original_neurons]

\* `d.original_neurons if d.original_neurons else [d]`
DestsOf(d) == IF d.original_neurons # {} THEN d.original_neurons ELSE {d}

\* the edges (table, s, d, od) that add to the loss of the original os
EdgeTerms(n, os) ==
    UNION {UNION {{<<i, sd[1], sd[2], od>> : od \in DestsOf(sd[2])} :
                  sd \in {x \in Range(Srcs(n.weights[i])) :
                             os \in x.original_neurons}
                         \X Range(Dests(n.weights[i]))} :
           i \in DOMAIN n.weights}

\* RefineByMaxLoss.original_edges_weights_diff: for every original neuron
\* os under an abstract source s, the sum over the destinations of
\* |original weight - current weight|
original_edges_weights_diff(n) ==
    [os \in MappedOriginals(n) |->
        LET terms == EdgeTerms(n, os)
        IN  SumOver(terms,
                [t \in terms |->
                    Abs(TableGet(n.weights[t[1]].orig, os, t[4])
                        - TableGet(n.weights[t[1]], t[2], t[3]))])]

\* the first k items of sorted(items, key=score, reverse=True): the
\* sequences of min(k, n) distinct items in non-increasing score order that
\* leave no higher-scored item out; items of equal score come in either order
TopSequences(items, score, k) ==
    LET m == IF k < Cardinality(items) THEN k ELSE Cardinality(items)
    IN  {q \in [1..m -> items] :
            /\ \A i, j \in 1..m : i < j =>
                  q[i] # q[j] /\ score[q[i]] >= score[q[j]]
            /\ \A x \in items \ Range(q) :
                  \A i \in 1..m : score[q[i]] >= score[x]}

\* RandomRefine.sample: max_per_step distinct items (all of them when there
\* are fewer), in any order
SampleSequences(items, k) ==
    LET m == IF k < Cardinality(items) THEN k ELSE Cardinality(items)
    IN  {q \in [1..m -> items] : \A i, j \in 1..m : i < j => q[i] # q[j]}

\* the keys of a defaultdict filled along `selected`: the abstract neurons
\* in the order of their first selected original
RECURSIVE KeysInOrder(_, _, _)
KeysInOrder(selected, key, seen) ==
    IF selected = <<>> THEN <<>>
    ELSE IF key[selected[1]] \in seen
         THEN KeysInOrder(Tail(selected), key, seen)
         ELSE <<key[selected[1]]>>
              \o KeysInOrder(Tail(selected), key, seen \cup {key[selected[1]]})

\* the list a defaultdict(list) holds under key la
PartsOfAny(selected, key, la) ==
    selected

PartsOf(selected, key, la) ==
    SelectSeq(selected, LAMBDA o : key[o] = la)

RStep(layer, step) == [layer |-> layer, kind |-> "refine", step |-> step]
AStep(layer, step) == [layer |-> layer, kind |-> "abstract", step |-> step]

\* construct_steps / refinement_steps_from_original_nodes: one
\* RefinementStep per abstract neuron, its parts the selected originals
refinement_steps_from_original_nodes(original_nodes, n) ==
    LET o2a == original_to_abstract_mapping(n)
        keys == KeysInOrder(original_nodes, o2a, {})
    IN  [i \in DOMAIN keys |->
            RStep(keys[i].layer,
                  RefinementStep(keys[i].a,
                                 PartsOf(original_nodes, o2a, keys[i])))]

\* RandomRefine(max_per_step)(network): the possible batches
RandomRefine(n, k) ==
    {refinement_steps_from_original_nodes(q, n) :
        q \in SampleSequences(MappedOriginals(n), k)}

\* RefineByMaxLoss(sequence_length)(network): the possible batches
RefineByMaxLoss(n, k) ==
    {refinement_steps_from_original_nodes(q, n) :
        q \in TopSequences(MappedOriginals(n),
                           original_edges_weights_diff(n), k)}

\* RefineByMaxActivations(max_per_step)(network, activations): the possible
\* batches; activations maps the neurons of the original network to values
RefineByMaxActivations(n, k, evaluated_network_activations) ==
    {refinement_steps_from_original_nodes(q, n) :
        q \in TopSequences(MappedOriginals(n)
                               \cap DOMAIN evaluated_network_activations,
                           evaluated_network_activations, k)}

\* RefineByMaxLossClustered.cluster.  JenksNaturalBreaks is an external
\* library: what is used of it is that predict labels a value by the breaks
\* only, so equal values share a label, that the labels are monotone in the
\* value, and that num_clusters classes are formed when there are that many
\* distinct values.  data_1d is in non-increasing order.  A result is the set
\* of positions i after which the label changes.
cluster(data_1d, num_clusters) ==
    IF Len(data_1d) > num_clusters
    THEN LET changes == {i \in 1..(Len(data_1d) - 1) :
                            data_1d[i] # data_1d[i + 1]}
             classes == IF num_clusters < Cardinality(changes) + 1
                        THEN num_clusters ELSE Cardinality(changes) + 1
         IN  {C \in SUBSET changes : Cardinality(C) = classes - 1}
    ELSE {1..(Len(data_1d) - 1)}

RECURSIVE ConcatAll(_)
ConcatAll(ss) == IF ss = <<>> THEN <<>> ELSE ss[1] \o ConcatAll(Tail(ss))

\* parts2 of RefineByMaxLossClustered: for every cluster in order, the
\* lists of its nodes per abstract neuron
RECURSIVE ClusterParts(_, _, _, _, _)
ClusterParts(nodes, breaks, o2a, r, last) ==
    IF r > last THEN <<>>
    ELSE LET lab == [i \in DOMAIN nodes |->
                        Cardinality({j \in breaks : j < i})]
             run == [i \in 1..Cardinality({j \in DOMAIN nodes : lab[j] = r}) |->
                        nodes[CHOOSE j \in DOMAIN nodes :
                                 /\ lab[j] = r
                                 /\ Cardinality({h \in DOMAIN nodes :
                                        lab[h] = r /\ h < j}) = i - 1]]
             keys == KeysInOrder(run, o2a, {})
         IN  [i \in DOMAIN keys |-> PartsOf(run, o2a, keys[i])]
             \o ClusterParts(nodes, breaks, o2a, r + 1, last)

\* (layer, NeuronId) tuples compare by layer, then by NeuronId
PairLt(x, y) ==
    x.layer < y.layer \/ (x.layer = y.layer /\ NidLt(x.a, y.a))

RECURSIVE SortedPairs(_)
SortedPairs(S) ==
    IF S = {} THEN <<>>
    ELSE LET m == CHOOSE x \in S : \A y \in S \ {x} : PairLt(x, y)
         IN  <<m>> \o SortedPairs(S \ {m})

\* make_groups_refinement_step, the abstraction steps: one per group of more
\* than one neuron, under generated names; cnt is the generator's counter
RECURSIVE GroupAbstractions(_, _, _)
GroupAbstractions(layer, groups, cnt) ==
    IF groups = <<>> THEN [steps |-> <<>>, cnt |-> cnt]
    ELSE IF Len(groups[1]) > 1
    THEN LET rest == GroupAbstractions(layer, Tail(groups), cnt + 1)
             nid == generate_neuronid(layer, cnt, groups[1][1].sign,
                                      groups[1][1].scaling)
         IN  [steps |-> <<AStep(layer,
                                AbstractionStepFromId(nid, groups[1]))>>
                        \o rest.steps,
              cnt |-> rest.cnt]
    ELSE GroupAbstractions(layer, Tail(groups), cnt)

\* make_groups_refinement_step(target_neuron, parts)
make_groups_refinement_step(layer, target_neuron, groups, cnt) ==
    LET abs == GroupAbstractions(layer, groups, cnt)
    IN  [steps |-> <<RStep(layer, RefinementStep(target_neuron,
                                                 ConcatAll(groups)))>>
                   \o abs.steps,
         cnt |-> abs.cnt]

\* grouped_refinement_steps_from_original_nodes, the loop over the abstract
\* neurons in sorted order; counters is the state of the name generators
RECURSIVE GroupedFrom(_, _, _, _)
GroupedFrom(keys, parts2, o2a, counters) ==
    IF keys = <<>> THEN [steps |-> <<>>, counters |-> counters]
    ELSE LET la == keys[1]
             groups == SelectSeq(parts2, LAMBDA g : o2a[g[1]] = la)
             here == make_groups_refinement_step(la.layer, la.a, groups,
                                                 counters[la.layer])
             rest == GroupedFrom(Tail(keys), parts2, o2a,
                         [counters EXCEPT ![la.layer] = here.cnt])
         IN  [steps |-> here.steps \o rest.steps, counters |-> rest.counters]

grouped_refinement_steps_from_original_nodes(parts2, n, counters) ==
    LET o2a == original_to_abstract_mapping(n)
    IN  GroupedFrom(SortedPairs({o2a[parts2[i][1]] : i \in DOMAIN parts2}),
                    parts2, o2a, counters)

\* RefineByMaxLossClustered(sequence_len)(network): the possible batches,
\* each with the counters of the name generators after it
RefineByMaxLossClustered(n, k, counters) ==
    LET loss == original_edges_weights_diff(n)
        o2a  == original_to_abstract_mapping(n)
    IN  UNION {
          IF nodes = <<>> THEN {[steps |-> <<>>, counters |-> counters]}
          ELSE LET num_clusters ==
                       Cardinality({o2a[nodes[i]] : i \in DOMAIN nodes}) * 2
                   data_1d == [i \in DOMAIN nodes |-> loss[nodes[i]]]
               IN  {grouped_refinement_steps_from_original_nodes(
                        ClusterParts(nodes, breaks, o2a, 0,
                                     Cardinality(breaks)),
                        n, counters) :
                    breaks \in cluster(data_1d, num_clusters)} :
          nodes \in TopSequences(MappedOriginals(n), loss, k)}

----------------------------------------------------------------------------
(* Properties of the abstraction and refinement engine *)

SameTable(s, t) ==
    s.index = t.index /\ s.columns = t.columns /\ s.values = t.values

SameLayer(k, l) ==
    /\ SameTable(k.incoming, l.incoming)
    /\ SameTable(k.outgoing, l.outgoing)
    /\ SameTable(k.biases, l.biases)

SetMax(S) == CHOOSE x \in S : \A y \in S : x >= y
SetMin(S) == CHOOSE x \in S : \A y \in S : x <= y

\* C1: after abstract_layer with a step, refine_layer with
\* RefinementStep(step.new_name, parts=None) gives back three tables with the
\* labels and the values of the tables before the abstraction.
C1_RoundTrip ==
    lastOp.kind = "abstract" =>
        LET l == LayerOf(net, lastOp.layer)
            r == refine_layer(l.incoming, l.outgoing, l.biases,
                              RefinementStepAll(lastOp.step.new_name))
        IN  /\ ~IsErr(r)
            /\ SameLayer(r, LayerOf(pre, lastOp.layer))

\* an abstraction of tables that already carry abstractions, one of the
\* merged neurons being abstract itself
C1_Witness ==
    /\ lastOp.kind = "abstract"
    /\ W(pre, lastOp.layer).steps # <<>>
    /\ W(pre, lastOp.layer - 1).steps # <<>>
    /\ \E g \in Range(lastOp.step.nodes) : IsAbstract(g)

\* C3: after abstract_layer with a group G the abstract neuron's incoming
\* weight from every source is the max (G Inc) or min (G Dec) of the members'
\* weights, its bias is the max / min of the members' biases, and its
\* outgoing weight to every destination is the sum of the members' weights.
C3_Aggregation ==
    lastOp.kind = "abstract" =>
        LET l == LayerOf(net, lastOp.layer)
            p == LayerOf(pre, lastOp.layer)
            G == Range(lastOp.step.nodes)
            A == lastOp.step.new_name
            inc == \A g \in G : g.scaling = "Inc"
            dec == \A g \in G : g.scaling = "Dec"
            Agg(S) == IF inc THEN SetMax(S) ELSE SetMin(S)
        IN  /\ inc \/ dec
            /\ \A s \in Range(Srcs(p.incoming)) :
                   TableGet(l.incoming, s, A)
                     = Agg({TableGet(p.incoming, s, g) : g \in G})
            /\ TableGet(l.biases, UNIT, A)
                     = Agg({TableGet(p.biases, UNIT, g) : g \in G})
            /\ \A d \in Range(Dests(p.outgoing)) :
                   TableGet(l.outgoing, A, d)
                     = SumOver(G, [g \in G |-> TableGet(p.outgoing, g, d)])

\* a Dec group is merged whose members differ in an incoming weight, while
\* the layer before holds an abstract Inc neuron
C3_Witness ==
    /\ lastOp.kind = "abstract"
    /\ First(lastOp.step.nodes).scaling = "Dec"
    /\ \E s \in Range(Srcs(W(pre, lastOp.layer - 1))) :
          /\ IsAbstract(s) /\ s.scaling = "Inc"
          /\ \E g, h \in Range(lastOp.step.nodes) :
                TableGet(W(pre, lastOp.layer - 1), s, g)
                  < TableGet(W(pre, lastOp.layer - 1), s, h)

IsPartialRefine ==
    /\ lastOp.kind = "refine"
    /\ ~lastOp.step.parts_none
    /\ Range(lastOp.step.parts) # lastOp.step.target_neuron.original_neurons

RemainingParts ==
    lastOp.step.target_neuron.original_neurons \ Range(lastOp.step.parts)

\* refine_layer on the target of the last refinement with the remaining
\* provenance members as parts
SecondRefine ==
    LET l == LayerOf(net, lastOp.layer)
    IN  refine_layer(l.incoming, l.outgoing, l.biases,
            RefinementStep(lastOp.step.target_neuron,
                           SortedSeq(RemainingParts)))

\* a single refine_layer on the target with the full provenance set
FullRefine ==
    LET p == LayerOf(pre, lastOp.layer)
        A == lastOp.step.target_neuron
    IN  refine_layer(p.incoming, p.outgoing, p.biases,
            RefinementStep(A, SortedSeq(A.original_neurons)))

\* C4 (as stated): after refine_layer with parts S, a non-empty strict subset
\* of A's provenance, refine_layer on A with the remaining members succeeds
\* and gives the tables of a single refine_layer on A with the full provenance.
C4_AsStated ==
    IsPartialRefine =>
        /\ ~IsErr(SecondRefine)
        /\ ~IsErr(FullRefine)
        /\ SameLayer(SecondRefine, FullRefine)

\* C4 (amended): when at least two provenance members remain, the second
\* refine_layer succeeds and gives the tables of the single full refinement;
\* when exactly one remains, the first refine_layer has already restored it,
\* A is gone, the tables are those of the full refinement and the second
\* refine_layer raises KeyError.
C4_PartialThenRest ==
    IsPartialRefine =>
        /\ ~IsErr(FullRefine)
        /\ IF Cardinality(RemainingParts) >= 2
           THEN /\ ~IsErr(SecondRefine)
                /\ SameLayer(SecondRefine, FullRefine)
           ELSE /\ SecondRefine = Err("KeyError")
                /\ SameLayer(LayerOf(net, lastOp.layer), FullRefine)

\* a partial refinement that leaves two members merged under A
C4_Witness ==
    /\ IsPartialRefine
    /\ Cardinality(RemainingParts) >= 2
    /\ HasLabel(Srcs(W(net, lastOp.layer)), lastOp.step.target_neuron)

LowerBoundValues == {-6, -2, 0, 4}

OutputLowerBound(lower) ==
    BasicProperty(<<>>, <<LowerBound(First(output_ids(orig)), lower)>>)

\* C2: on every network reached from a classified network by abstraction and
\* refinement steps on the layers 2..layers_count()-2, every output is, for
\* every input, at least the output of the original network; so an output
\* LowerBound property with no satisfying input on the abstract network has
\* none on the original.
C2_SoundOverApproximation ==
    /\ \A x \in InputValues :
          LET a == evaluate(net, <<x>>)
              o == evaluate(orig, <<x>>)
          IN  /\ DOMAIN a = DOMAIN o
              /\ \A k \in DOMAIN o : a[k] >= o[k]
    /\ \A lower \in LowerBoundValues :
          (\A x \in InputValues :
              ~is_satisfying_assignment(net, <<x>>, OutputLowerBound(lower)))
          => (\A x \in InputValues :
              ~is_satisfying_assignment(orig, <<x>>, OutputLowerBound(lower)))

\* after abstractions in both hidden layers and a refinement, an abstract
\* neuron remains and the abstract output is strictly above the original
\* one, which satisfies a LowerBound the original output does not
C2_Witness ==
    /\ lastOp.kind = "refine"
    /\ \E i \in 2..3 : \E n \in LayerIds(net, i) : IsAbstract(n)
    /\ \E x \in InputValues : \E lower \in LowerBoundValues :
          /\ evaluate(net, <<x>>)[1] > evaluate(orig, <<x>>)[1]
          /\ is_satisfying_assignment(net, <<x>>, OutputLowerBound(lower))
          /\ ~is_satisfying_assignment(orig, <<x>>, OutputLowerBound(lower))

----------------------------------------------------------------------------
(* update_property on properties and bound snapshots drawn from small sets *)

OutY1 == NeuronId(45, NoneT, "Inc", {})
OutY2 == NeuronId(46, NoneT, "Inc", {})
BoundValues == {-2, 0, 3}

\* a snapshot entry: min <= max, as evaluate_bounds_naive computes them
Intervals ==
    {[min |-> lo, max |-> hi] : lo \in BoundValues, hi \in BoundValues}
        \cap {i \in [min : BoundValues, max : BoundValues] : i.min <= i.max}

InputConstraints == <<LowerBound(Plain(1), -1), UpperBound(Plain(1), 1)>>

OutputConstraintLists ==
    {<<c>> : c \in {LowerBound(OutY1, 0), LowerBound(OutY1, 4),
                    UpperBound(OutY1, 0), UpperBound(OutY1, 4)}}
    \cup {<<c, d>> : c \in {LowerBound(OutY1, 0), UpperBound(OutY1, 4)},
                     d \in {UpperBound(OutY2, 2), LowerBound(OutY2, 2)}}

InitUpdate ==
    /\ uprop \in {BasicProperty(InputConstraints, out) :
                     out \in OutputConstraintLists}
    /\ ubefore \in {[n \in {OutY1, OutY2} |->
                        IF n = OutY1 THEN i ELSE [min |-> 0, max |-> 1]] :
                     i \in Intervals}
    /\ uafter \in {[n \in {OutY1, OutY2} |-> IF n = OutY1 THEN i ELSE j] :
                     i \in Intervals,
                     j \in {[min |-> -1, max |-> 0], [min |-> 2, max |-> 5]}}
    /\ uresult = NoProperty
    /\ orig = OriginalNetwork(1, 0, -3) /\ net = orig /\ pre = orig
    /\ lastOp = NoOp
    /\ counter = [l \in 2..3 |-> 1]
    /\ CegarIdle /\ TransIdle

UpdatePropertyAct ==
    /\ uresult = NoProperty
    /\ uresult' = update_property(uprop, ubefore, uafter)
    /\ UNCHANGED <<uprop, ubefore, uafter, layerVars, cegarVars, transVars,
                   outcome>>

NextUpdate == UpdatePropertyAct

SpecUpdate == InitUpdate /\ [][NextUpdate]_vars

\* C9: update_property returns, for every LowerBound output constraint, a
\* lower value not below the input one and, for every UpperBound output
\* constraint, an upper value not above the input one; the output
\* constraints are as many, on the same neurons, and the input constraints
\* are unchanged.
C9_MonotonicTightening ==
    uresult # NoProperty =>
        /\ uresult.input_constraints = uprop.input_constraints
        /\ Len(uresult.output_constraints) = Len(uprop.output_constraints)
        /\ \A k \in DOMAIN uprop.output_constraints :
              LET old == uprop.output_constraints[k]
                  new == uresult.output_constraints[k]
              IN  /\ new.nid = old.nid
                  /\ new.kind = old.kind
                  /\ old.kind = "LowerBound" => new.bound >= old.bound
                  /\ old.kind = "UpperBound" => new.bound <= old.bound

\* a property with a LowerBound and an UpperBound has been updated and both
\* bounds have moved
C9_Witness ==
    /\ uresult # NoProperty
    /\ Len(uprop.output_constraints) = 2
    /\ uprop.output_constraints[1].kind = "LowerBound"
    /\ uprop.output_constraints[2].kind = "UpperBound"
    /\ uresult.output_constraints[1].bound > uprop.output_constraints[1].bound
    /\ uresult.output_constraints[2].bound < uprop.output_constraints[2].bound

\* C10 (as stated): update_property returns lower + max(0, after.min -
\* before.max) for a LowerBound on n and upper + min(0, after.max -
\* before.min) for an UpperBound on n.
C10_BoundShiftFormula ==
    uresult # NoProperty =>
        \A k \in DOMAIN uprop.output_constraints :
            LET old == uprop.output_constraints[k]
                new == uresult.output_constraints[k]
                b == ubefore[old.nid]
                a == uafter[old.nid]
            IN  IF old.kind = "LowerBound"
                THEN new.bound = old.bound + Max2(0, a.min - b.max)
                ELSE new.bound = old.bound + Min2(0, a.max - b.min)

----------------------------------------------------------------------------
(* single_experiment.py: run_experiment, with refine_network and
   refine_until_not_satisfying of refine.py.  No property updater is given
   (update_property = None), so test_property is the original property. *)

MaxQueries == 4
MaxPerStep == 3

\* marabou_integration.py: MarabouValue
MarabouValue ==
    {"SAT", "UNSAT", "UNKNOWN", "ERROR", "TIMEOUT", "QUIT_REQUESTED",
     "NOT_DONE"}

PolicyNames ==
    {"RandomRefine", "RefineByMaxLoss", "RefineByMaxActivations",
     "RefineByMaxLossClustered"}

CegarNetworks == {OriginalNetwork(1, 0, -3), TiedNetwork}

CegarProperty(lower) ==
    BasicProperty(<<LowerBound(Plain(1), -2), UpperBound(Plain(1), 3)>>,
                  <<LowerBound(IdsLayer4[1], lower)>>)

\* abstract_layer as refine_network applies it to a layer
AbstractLayerStep(n, layer_index, step) ==
    LET l == LayerOf(n, layer_index)
        r == abstract_layer(l.incoming, l.outgoing, l.biases, step)
    IN  IF IsErr(r) THEN r ELSE WithLayer(n, layer_index, r)

\* the body of the loop over the steps of refine_network and of
\* refine_until_not_satisfying
ApplyStep(n, st) ==
    IF st.kind = "refine"
    THEN RefineNetworkStep(n, st.layer, st.step)
    ELSE AbstractLayerStep(n, st.layer, st.step)

RECURSIVE ApplySteps(_, _)
ApplySteps(n, steps) ==
    IF steps = <<>> \/ IsErr(n) THEN n
    ELSE ApplySteps(ApplyStep(n, steps[1]), Tail(steps))

\* call_with_needed_arguments(refinement_strategy, network=..., ...): the
\* batches the policy may return, with the name generators' counters
StrategySteps(n) ==
    CASE policy.name = "RandomRefine" ->
            {[steps |-> b, counters |-> counter] : b \in RandomRefine(n, policy.k)}
      [] policy.name = "RefineByMaxLoss" ->
            {[steps |-> b, counters |-> counter] :
                b \in RefineByMaxLoss(n, policy.k)}
      [] policy.name = "RefineByMaxActivations" ->
            {[steps |-> b, counters |-> counter] :
                b \in RefineByMaxActivations(n, policy.k,
                         evaluate_intermediate(orig, query_result.witness))}
      [] OTHER -> RefineByMaxLossClustered(n, policy.k, counter)

\* a loop over the steps that never looks at the examples
NoExampleFails(n, spurious_examples, property) ==
    FALSE

\* the loop over spurious_examples of refine_until_not_satisfying: some
\* example is no longer satisfying
SomeExampleFails(n, spurious_examples, property) ==
    \E i \in DOMAIN spurious_examples :
        ~is_satisfying_assignment(n, spurious_examples[i], property)

InitCegar ==
    /\ orig \in CegarNetworks
    /\ net = CompleteAbstractionLeftToRight(orig)
    /\ pre = orig /\ lastOp = NoOp
    /\ counter = [l \in 2..3 |-> 1]
    /\ uprop = NoProperty /\ uresult = NoProperty
    /\ ubefore = NoBounds /\ uafter = NoBounds
    /\ pc = "query" /\ status = "UNKNOWN"
    /\ policy \in [name : PolicyNames, k : {1, MaxPerStep}]
    /\ until \in BOOLEAN
    /\ test_property \in {CegarProperty(-5), CegarProperty(1)}
    /\ examples = <<>> /\ query_result = NoResult /\ batch = <<>>
    /\ calls = 0 /\ roundNet = net /\ origChecks = 0 /\ applied = 0
    /\ TransIdle

\* query_marabou: the oracle answers any value, with any input as witness
QueryMarabou ==
    /\ pc = "query"
    /\ calls < MaxQueries
    /\ query_result' \in
          {[value |-> v, witness |-> <<>>] : v \in MarabouValue \ {"SAT"}}
          \cup {[value |-> "SAT", witness |-> <<x>>] : x \in InputValues}
    /\ calls' = calls + 1
    /\ pc' = "answered"
    /\ UNCHANGED <<layerVars, updVars, transVars, outcome, status, policy, until, test_property,
                   examples, batch, roundNet, origChecks, applied>>

HandleUnsat ==
    /\ pc = "answered"
    /\ query_result.value = "UNSAT"
    /\ status' = "UNSAT"
    /\ pc' = "done"
    /\ UNCHANGED <<layerVars, updVars, transVars, outcome, policy, until, test_property, examples,
                   query_result, batch, calls, roundNet, origChecks, applied>>

HandleOther ==
    /\ pc = "answered"
    /\ query_result.value \notin {"SAT", "UNSAT"}
    /\ status' = query_result.value
    /\ pc' = "done"
    /\ UNCHANGED <<layerVars, updVars, transVars, outcome, policy, until, test_property, examples,
                   query_result, batch, calls, roundNet, origChecks, applied>>

\* a run that goes on to the original network and to refinement with a
\* witness the abstract network rejects
HandleSatInconsistentContinues ==
    /\ pc = "answered"
    /\ query_result.value = "SAT"
    /\ ~is_satisfying_assignment(net, query_result.witness, test_property)
    /\ origChecks' = origChecks + 1
    /\ examples' = Append(examples, query_result.witness)
    /\ roundNet' = net
    /\ applied' = 0
    /\ pc' = IF until THEN "ru_strategy" ELSE "refine"
    /\ UNCHANGED <<layerVars, updVars, transVars, outcome, status, policy, until, test_property,
                   query_result, batch, calls>>

\* the witness does not satisfy the abstract network: `return`
HandleSatInconsistent ==
    /\ pc = "answered"
    /\ query_result.value = "SAT"
    /\ ~is_satisfying_assignment(net, query_result.witness, test_property)
    /\ pc' = "returned"
    /\ UNCHANGED <<layerVars, updVars, transVars, outcome, status, policy, until, test_property,
                   examples, query_result, batch, calls, roundNet, origChecks,
                   applied>>

HandleSatOnOriginal ==
    /\ pc = "answered"
    /\ query_result.value = "SAT"
    /\ is_satisfying_assignment(net, query_result.witness, test_property)
    /\ is_satisfying_assignment(orig, query_result.witness, test_property)
    /\ origChecks' = origChecks + 1
    /\ status' = "SAT"
    /\ pc' = "done"
    /\ UNCHANGED <<layerVars, updVars, transVars, outcome, policy, until, test_property, examples,
                   query_result, batch, calls, roundNet, applied>>

\* a run that takes a spurious witness for a genuine one
HandleSatSpuriousAccepted ==
    /\ pc = "answered"
    /\ query_result.value = "SAT"
    /\ is_satisfying_assignment(net, query_result.witness, test_property)
    /\ ~is_satisfying_assignment(orig, query_result.witness, test_property)
    /\ origChecks' = origChecks + 1
    /\ status' = "SAT"
    /\ pc' = "done"
    /\ UNCHANGED <<layerVars, updVars, transVars, outcome, policy, until, test_property, examples,
                   query_result, batch, calls, roundNet, applied>>

HandleSatSpurious ==
    /\ pc = "answered"
    /\ query_result.value = "SAT"
    /\ is_satisfying_assignment(net, query_result.witness, test_property)
    /\ ~is_satisfying_assignment(orig, query_result.witness, test_property)
    /\ origChecks' = origChecks + 1
    /\ examples' = Append(examples, query_result.witness)
    /\ roundNet' = net
    /\ applied' = 0
    /\ pc' = IF until THEN "ru_strategy" ELSE "refine"
    /\ UNCHANGED <<layerVars, updVars, transVars, outcome, status, policy, until, test_property,
                   query_result, batch, calls>>

CountersWithin(counters) ==
    \A l \in DOMAIN counters : counters[l] <= MaxGenerated + 1

\* refine_network: every step of the policy's batch is applied; without
\* steps the network is returned as it is
RefineNetworkAct ==
    /\ pc = "refine"
    /\ \E b \in StrategySteps(net) :
          /\ CountersWithin(b.counters)
          /\ ~IsErr(ApplySteps(net, b.steps))
          /\ net' = ApplySteps(net, b.steps)
          /\ counter' = b.counters
          /\ applied' = Len(b.steps)
    /\ pc' = "query"
    /\ UNCHANGED <<orig, pre, lastOp, updVars, transVars, outcome, status, policy, until,
                   test_property, examples, query_result, batch, calls,
                   roundNet, origChecks>>

\* refine_until_not_satisfying, the head of the `while True` loop: the
\* policy is asked for a batch; without steps the network is returned
RefineUntilStrategy ==
    /\ pc = "ru_strategy"
    /\ \E b \in StrategySteps(net) :
          /\ CountersWithin(b.counters)
          /\ batch' = b.steps
          /\ counter' = b.counters
          /\ pc' = IF b.steps = <<>> THEN "query" ELSE "ru_step"
    /\ UNCHANGED <<orig, net, pre, lastOp, updVars, transVars, outcome, status, policy, until,
                   test_property, examples, query_result, calls, roundNet,
                   origChecks, applied>>

\* refine_until_not_satisfying, one turn of the loop over the steps: the
\* step is applied, then the spurious examples are checked
RefineUntilStep ==
    /\ pc = "ru_step"
    /\ ~IsErr(ApplyStep(net, Head(batch)))
    /\ net' = ApplyStep(net, Head(batch))
    /\ applied' = applied + 1
    /\ IF SomeExampleFails(net', examples, test_property)
       THEN pc' = "query" /\ batch' = <<>>
       ELSE /\ batch' = Tail(batch)
            /\ pc' = IF Tail(batch) = <<>> THEN "ru_strategy" ELSE "ru_step"
    /\ UNCHANGED <<orig, pre, lastOp, counter, updVars, transVars, outcome, status, policy, until,
                   test_property, examples, query_result, calls, roundNet,
                   origChecks>>

NextCegar ==
    \/ QueryMarabou
    \/ HandleUnsat
    \/ HandleOther
    \/ HandleSatInconsistent
    \/ HandleSatOnOriginal
    \/ HandleSatSpurious
    \/ RefineNetworkAct
    \/ RefineUntilStrategy
    \/ RefineUntilStep

SpecCegar == InitCegar /\ [][NextCegar]_vars

\* the abstraction left in a network: the merged neurons beyond one per
\* abstract neuron
AbstractionAmount(n) ==
    LET A == network_abstracted_neurons(n)
    IN  SumOver(A, [la \in A |-> Cardinality(la.a.original_neurons) - 1])

\* no step of a batch raises
NoStepRaises ==
    /\ pc = "refine" =>
          \A b \in StrategySteps(net) : ~IsErr(ApplySteps(net, b.steps))
    /\ pc = "ru_step" => ~IsErr(ApplyStep(net, Head(batch)))

Refining == {"refine", "ru_strategy", "ru_step"}

C5_StatusInv ==
    /\ status = "UNSAT" => pc = "done" /\ query_result.value = "UNSAT"
    /\ status = "SAT" =>
          /\ pc = "done"
          /\ query_result.value = "SAT"
          /\ is_satisfying_assignment(orig, query_result.witness, test_property)
    /\ pc = "done" => status = query_result.value
    /\ pc # "done" => status = "UNKNOWN"

C5_Step ==
    /\ pc = "answered" /\ query_result.value \notin {"SAT", "UNSAT"}
          => pc' = "done" /\ status' = query_result.value
    /\ ( /\ pc = "answered" /\ query_result.value = "SAT"
         /\ is_satisfying_assignment(net, query_result.witness, test_property)
         /\ ~is_satisfying_assignment(orig, query_result.witness,
                                      test_property) )
          => pc' \in Refining /\ status' = "UNKNOWN"
    /\ pc \in Refining => pc' \in Refining \cup {"query"}

\* C5: run_experiment ends with UNSAT only on the oracle's UNSAT, with SAT
\* only when the witness satisfies the original property on the original
\* network, and at once with X on any other answer X; a SAT answer whose
\* witness holds on the abstract network but not on the original does not
\* end the loop: refinement follows, and after it the next query
C5_FinalStatus == []C5_StatusInv /\ [][C5_Step]_vars

\* a run that ends with SAT after a spurious round
C5_Witness ==
    pc = "done" /\ status = "SAT" /\ examples # <<>>

C6_Step ==
    pc \in Refining /\ pc' = "query"
        => AbstractionAmount(net') < AbstractionAmount(roundNet)

\* C6: every spurious round strictly reduces the amount of abstraction: the
\* network handed to the next query has less of it than the network of the
\* spurious answer
C6_RoundReducesAbstraction == [][C6_Step]_vars

C7_Step ==
    ( /\ pc = "answered" /\ query_result.value = "SAT"
      /\ ~is_satisfying_assignment(net, query_result.witness, test_property) )
    => /\ pc' = "returned"
       /\ UNCHANGED <<net, status, origChecks, calls, examples>>

\* C7: a SAT answer whose witness the abstract network rejects stops the
\* run at once: the original network is not consulted, nothing is refined,
\* the oracle is not called again, and neither SAT nor UNSAT is the outcome
C7_InconsistencyAborts ==
    /\ [][C7_Step]_vars
    /\ [][pc # "returned"]_vars
    /\ [](pc = "returned" => status \notin {"SAT", "UNSAT"})

\* a run aborted after a spurious round
C7_Witness ==
    pc = "returned" /\ examples # <<>>

C8_EarlierStepsKeep ==
    pc \in {"ru_strategy", "ru_step"} /\ applied > 0
        => \A i \in DOMAIN examples :
              is_satisfying_assignment(net, examples[i], test_property)

C8_Step ==
    pc = "ru_step" =>
        LET after == ApplyStep(net, Head(batch))
        IN  /\ net' = after
            /\ IF \E i \in DOMAIN examples :
                     ~is_satisfying_assignment(after, examples[i],
                                               test_property)
               THEN pc' = "query"
               ELSE pc' \in {"ru_strategy", "ru_step"}

\* C8: refine_until_not_satisfying looks at all the examples after every
\* step: while it goes on every example satisfies the property on the
\* network, and it returns the network as it stands after the first step
\* that makes an example fail, the rest of the batch not applied; that
\* network is the one of the next query
C8_StepGranularStop ==
    /\ []C8_EarlierStepsKeep
    /\ [][C8_Step]_vars
    /\ [][pc = "query" => net' = net]_vars

\* the first step of a batch of several makes the only example fail
C8_Witness ==
    /\ pc = "ru_step" /\ Len(batch) >= 2 /\ Len(examples) = 1
    /\ ~is_satisfying_assignment(ApplyStep(net, Head(batch)), examples[1],
                                 test_property)

----------------------------------------------------------------------------
(* adverserial_property.py *)

AdversarialProperty(input_constraints, output_constraints, minimal_is_the_winner, slack) ==
    [kind |-> "AdversarialProperty",
     input_constraints |-> input_constraints,
     output_constraints |-> output_constraints,
     minimal_is_the_winner |-> minimal_is_the_winner,
     slack |-> slack]

\* isinstance(property, <class>): a BasicProperty carries no kind
IsInstance(property, kind) ==
    "kind" \in DOMAIN property /\ property.kind = kind

\* None in the place of a NeuronId
NoNeuron == [none |-> TRUE]

\* the tuples (lower, nid) of find_winner_and_runnerup; inf = 1 / -1 stands
\* for float("inf") / float("-inf") with nid None
BoundPair(inf, lower, nid) == [inf |-> inf, lower |-> lower, nid |-> nid]

\* operator.gt on two such tuples: the first differing element decides
PairGt(a, b) ==
    IF a.inf # b.inf THEN a.inf > b.inf
    ELSE IF a.inf # 0 THEN FALSE
    ELSE IF a.lower # b.lower THEN a.lower > b.lower
    ELSE ~NidEq(a.nid, b.nid) /\ ~NidLt(a.nid, b.nid)

\* operator.lt on two such tuples
PairLess(a, b) ==
    IF a.inf # b.inf THEN a.inf < b.inf
    ELSE IF a.inf # 0 THEN FALSE
    ELSE IF a.lower # b.lower THEN a.lower < b.lower
    ELSE NidLt(a.nid, b.nid)

\* the loop over the LowerBound constraints, from position i on
RECURSIVE ScanLowerBounds(_, _, _, _, _)
ScanLowerBounds(cs, i, minimal, winner, runnerup) ==
    IF i > Len(cs) THEN <<winner, runnerup>>
    ELSE IF cs[i].kind # "LowerBound"
    THEN ScanLowerBounds(cs, i + 1, minimal, winner, runnerup)
    ELSE LET current == BoundPair(0, cs[i].bound, cs[i].nid)
             before(x, y) == IF minimal THEN PairLess(x, y) ELSE PairGt(x, y)
         IN  IF before(current, winner)
             THEN ScanLowerBounds(cs, i + 1, minimal, current, winner)
             ELSE IF before(current, runnerup)
             THEN ScanLowerBounds(cs, i + 1, minimal, winner, current)
             ELSE ScanLowerBounds(cs, i + 1, minimal, winner, runnerup)

\* the first two LowerBound constraints in the order given
FirstTwoLowerBounds(property) ==
    LET lbs == KeepPos(property.output_constraints,
                   {i \in DOMAIN property.output_constraints :
                       property.output_constraints[i].kind = "LowerBound"}, 1)
    IN  <<IF Len(lbs) >= 1 THEN lbs[1].nid ELSE NoNeuron,
          IF Len(lbs) >= 2 THEN lbs[2].nid ELSE NoNeuron>>

\* find_winner_and_runnerup: <<winner, runnerup>>, None where there is none
find_winner_and_runnerup(property) ==
    LET start == BoundPair(IF property.minimal_is_the_winner THEN 1 ELSE -1,
                           0, NoNeuron)
        r == ScanLowerBounds(property.output_constraints, 1,
                             property.minimal_is_the_winner, start, start)
    IN  <<r[1].nid, r[2].nid>>

ADVERSARIAL_PROPERTY_OUTPUT_NEURON_ID == NeuronId(99, NoneT, NoneT, {})

\* the new last layer: column `plus` minus column `minus` of the last
\* weights table, and the difference of their biases minus the slack
DifferenceLayer(network, plus, minus, slack) ==
    LET w == network.weights[Len(network.weights)]
        b == network.biases[Len(network.biases)]
        p == PosOf(w.columns, plus)
        m == PosOf(w.columns, minus)
    IN  [weights |-> WeightsTable(w.index,
                        <<ADVERSARIAL_PROPERTY_OUTPUT_NEURON_ID>>,
                        [r \in DOMAIN w.index |->
                            <<w.values[r][p] - w.values[r][m]>>]),
         biases |-> BiasTable(<<ADVERSARIAL_PROPERTY_OUTPUT_NEURON_ID>>,
                        <<b.values[1][p] - b.values[1][m] - slack>>)]

prepare_network_adversarial(network, property) ==
    IF ~IsInstance(property, "AdversarialProperty") THEN Err("TypeError")
    ELSE
    LET wr == find_winner_and_runnerup(property)
        winner == wr[1]
        runnerup == wr[2]
        w == network.weights[Len(network.weights)]
    IN  IF winner = NoNeuron \/ runnerup = NoNeuron THEN Err("KeyError")
        ELSE IF ~HasLabel(w.columns, winner) \/ ~HasLabel(w.columns, runnerup)
        THEN Err("KeyError")
        ELSE
        LET l == IF property.minimal_is_the_winner
                 THEN DifferenceLayer(network, winner, runnerup, property.slack)
                 ELSE DifferenceLayer(network, runnerup, winner, property.slack)
        IN  [network |->
                Network([network.weights EXCEPT ![Len(network.weights)] = l.weights],
                        [network.biases EXCEPT ![Len(network.biases)] = l.biases],
                        network.activations),
             property |->
                BasicProperty(property.input_constraints,
                    <<LowerBound(ADVERSARIAL_PROPERTY_OUTPUT_NEURON_ID, 0)>>)]

----------------------------------------------------------------------------
(* acas_xu_property.py *)

Term(nid, factor) == [nid |-> nid, factor |-> factor]

MultiVarLowerBound(terms, lower) ==
    [kind |-> "MultiVarLowerBound", vars |-> terms, bound |-> lower]

MultiVarUpperBound(terms, upper) ==
    [kind |-> "MultiVarUpperBound", vars |-> terms, bound |-> upper]

ACASXuConjunctionProperty(input_constraints, output_constraints) ==
    [kind |-> "ACASXuConjunctionProperty",
     input_constraints |-> input_constraints,
     output_constraints |-> output_constraints]

\* the neurons of all the constraints' terms (extract_neuron)
ConstraintNeurons(output_constraints) ==
    UNION {{output_constraints[i].vars[j].nid :
               j \in DOMAIN output_constraints[i].vars} :
           i \in DOMAIN output_constraints}

\* bidict raises when two keys (neurons that differ in type) have the same
\* value (the symbol of their common name)
SymbolClash(output_constraints) ==
    \E n, m \in ConstraintNeurons(output_constraints) :
        n.name = m.name /\ ~NidEq(n, m)

\* the coefficient of a neuron's symbol in sm.Add(*terms)
Coefficient(constraint, n) ==
    FoldSum([j \in DOMAIN constraint.vars |->
                IF constraint.vars[j].nid.name = n.name
                THEN constraint.vars[j].factor ELSE 0])

FreeSymbols(constraint) ==
    {n \in ConstraintNeurons(<<constraint>>) : Coefficient(constraint, n) # 0}

\* constraint_to_inequlity: `lower < lhs` is the relation lhs > lower,
\* `lhs < upper` the relation lhs < upper; without a free symbol the
\* comparison is a truth value, which has no rel_op
constraint_to_inequlity(constraint) ==
    IF FreeSymbols(constraint) = {} THEN [rel_op |-> "none"]
    ELSE [rel_op |-> IF constraint.kind = "MultiVarLowerBound" THEN ">" ELSE "<",
          lhs |-> [n \in FreeSymbols(constraint) |-> Coefficient(constraint, n)],
          rhs |-> constraint.bound]

\* the assert skipped
AnyRelOp(inequalities) == TRUE

\* len(set(c.rel_op for c in constraints_as_inequalities)) == 1
SameRelOp(inequalities) ==
    Cardinality({inequalities[i].rel_op : i \in DOMAIN inequalities}) = 1

\* isolate_variables_to_lhs: rhs - lhs, then every symbol moved to the left
isolate_variables_to_lhs(ineq) ==
    LET moved == [n \in DOMAIN ineq.lhs |-> 0 - ineq.lhs[n]]
    IN  [rel_op |-> ineq.rel_op,
         lhs |-> [n \in DOMAIN moved |-> 0 - moved[n]],
         rhs |-> ineq.rhs]

\* the keys of `weights` in insertion order: inequality by inequality, the
\* symbols of one inequality in the order of their names
RECURSIVE WeightRows(_, _, _)
WeightRows(isolated, i, rows) ==
    IF i > Len(isolated) THEN rows
    ELSE WeightRows(isolated, i + 1,
            rows \o SortedSeq(DOMAIN isolated[i].lhs \ Range(rows)))

ConjunctionOutput(i) == NeuronId(90 + i, NoneT, NoneT, {})

prepare_network_acas_xu_conjunction(network, property) ==
    IF ~IsInstance(property, "ACASXuConjunctionProperty") THEN Err("TypeError")
    ELSE IF SymbolClash(property.output_constraints)
    THEN Err("ValueDuplicationError")
    ELSE
    LET constraints_as_inequalities ==
            [i \in DOMAIN property.output_constraints |->
                constraint_to_inequlity(property.output_constraints[i])]
    IN  IF \E i \in DOMAIN constraints_as_inequalities :
               constraints_as_inequalities[i].rel_op = "none"
        THEN Err("AttributeError")
        ELSE IF ~SameRelOp(constraints_as_inequalities)
        THEN Err("AssertionError")
        ELSE
        LET isolated == [i \in DOMAIN constraints_as_inequalities |->
                            isolate_variables_to_lhs(
                                constraints_as_inequalities[i])]
            rows == WeightRows(isolated, 1, <<>>)
            output_neurons == [i \in DOMAIN isolated |-> ConjunctionOutput(i)]
            weights ==
                WeightsTable(rows, output_neurons,
                    [r \in DOMAIN rows |->
                        [i \in DOMAIN isolated |->
                            IF rows[r] \in DOMAIN isolated[i].lhs
                            THEN isolated[i].lhs[rows[r]] ELSE 0]])
        IN  [network |->
                Network(Append(network.weights, weights),
                        Append(network.biases,
                               BiasTable(output_neurons,
                                         [i \in DOMAIN isolated |-> 0])),
                        Append(network.activations, "Id")),
             property |->
                BasicProperty(property.input_constraints,
                    [i \in DOMAIN isolated |->
                        IF isolated[i].rel_op = ">"
                        THEN LowerBound(output_neurons[i], 0)
                        ELSE UpperBound(output_neurons[i], 0)])]

(* verification_property.py *)

prepare_network_basic_property(network, property) ==
    IF "kind" \in DOMAIN property THEN Err("TypeError")
    ELSE [network |-> network, property |-> property]

prepare_network_for_property(network, property) ==
    IF ~("kind" \in DOMAIN property)
    THEN prepare_network_basic_property(network, property)
    ELSE IF IsInstance(property, "ACASXuConjunctionProperty")
    THEN prepare_network_acas_xu_conjunction(network, property)
    ELSE IF IsInstance(property, "AdversarialProperty")
    THEN prepare_network_adversarial(network, property)
    ELSE Err("NotImplementedError")

----------------------------------------------------------------------------
(* prepare_network_for_property on networks and properties drawn from small
   sets *)

OutY3 == NeuronId(47, NoneT, "Inc", {})

TransformNetwork(w) ==
    Network(
        << WeightsTable(<<Plain(1)>>, <<Plain(11), Plain(12)>>, << <<1, -1>> >>),
           WeightsTable(<<Plain(11), Plain(12)>>, <<OutY1, OutY2, OutY3>>,
                        << <<2, w, 1>>, <<-1, 1, 3>> >>) >>,
        << BiasTable(<<Plain(1)>>, <<0>>),
           BiasTable(<<Plain(11), Plain(12)>>, <<0, 1>>),
           BiasTable(<<OutY1, OutY2, OutY3>>, <<1, -2, 0>>) >>,
        <<"Id", "ReLU", "Id">>)

AdversarialBounds == {2, 5, 7}

AdversarialConstraintLists ==
    {<<LowerBound(OutY1, a), LowerBound(OutY2, b), LowerBound(OutY3, c)>> :
        a \in AdversarialBounds, b \in AdversarialBounds, c \in AdversarialBounds}
    \cup {<<LowerBound(OutY3, a), LowerBound(OutY2, b), LowerBound(OutY1, c)>> :
        a \in AdversarialBounds, b \in AdversarialBounds, c \in AdversarialBounds}
    \cup {<<LowerBound(OutY1, 5), LowerBound(OutY2, 2)>>,
          <<LowerBound(OutY1, 5), UpperBound(OutY3, 9), LowerBound(OutY2, 2)>>,
          <<LowerBound(OutY1, 5)>>}

AdversarialProperties ==
    {AdversarialProperty(InputConstraints, cs, m, slack) :
        cs \in AdversarialConstraintLists, m \in BOOLEAN, slack \in {0, 1}}

ConjunctionTerms ==
    {<<Term(OutY1, 1), Term(OutY2, -1)>>, <<Term(OutY2, 2)>>,
     <<Term(OutY3, 1), Term(OutY1, 1)>>, <<Term(OutY1, 1), Term(OutY1, -1)>>}

ConjunctionConstraints ==
    {MultiVarLowerBound(t, b) : t \in ConjunctionTerms, b \in {0, 3}}
    \cup {MultiVarUpperBound(t, b) : t \in ConjunctionTerms, b \in {0, 3}}

ConjunctionConstraintLists ==
    {<<c>> : c \in ConjunctionConstraints}
    \cup {<<c, d>> : c \in ConjunctionConstraints, d \in ConjunctionConstraints}
    \cup {<<c, d, e>> : c \in {x \in ConjunctionConstraints : x.bound = 0},
                        d \in {x \in ConjunctionConstraints : x.bound = 3},
                        e \in {x \in ConjunctionConstraints : x.bound = 0}}

ConjunctionProperties ==
    {ACASXuConjunctionProperty(InputConstraints, cs) :
        cs \in ConjunctionConstraintLists}

InitTransform ==
    /\ orig \in {TransformNetwork(-1), TransformNetwork(3)}
    /\ net = orig /\ pre = orig /\ lastOp = NoOp
    /\ counter = [l \in 2..3 |-> 1]
    /\ uprop = NoProperty /\ uresult = NoProperty
    /\ ubefore = NoBounds /\ uafter = NoBounds
    /\ CegarIdle
    /\ tproperty \in AdversarialProperties \cup ConjunctionProperties
                     \cup {BasicProperty(InputConstraints,
                                         <<LowerBound(OutY1, 0)>>)}
    /\ tresult = NoResult /\ outcome = NoResult

PrepareNetworkAct ==
    /\ tresult = NoResult
    /\ tresult' = prepare_network_for_property(orig, tproperty)
    /\ UNCHANGED <<layerVars, updVars, cegarVars, tproperty, outcome>>

NextTransform == PrepareNetworkAct

SpecTransform == InitTransform /\ [][NextTransform]_vars

HasKind(constraints, kind) ==
    \E i \in DOMAIN constraints : constraints[i].kind = kind

\* C11: prepare_network_acas_xu_conjunction on a property whose output
\* constraints hold a MultiVarLowerBound and a MultiVarUpperBound fails with
\* an error: no network and no property is returned
C11_ConjunctionRejection ==
    ( /\ tresult # NoResult
      /\ IsInstance(tproperty, "ACASXuConjunctionProperty")
      /\ HasKind(tproperty.output_constraints, "MultiVarLowerBound")
      /\ HasKind(tproperty.output_constraints, "MultiVarUpperBound") )
    => IsErr(tresult)

\* a lower and an upper inequality, each with a free symbol, were rejected by
\* the assert
C11_Witness ==
    /\ tresult = Err("AssertionError")
    /\ HasKind(tproperty.output_constraints, "MultiVarLowerBound")
    /\ HasKind(tproperty.output_constraints, "MultiVarUpperBound")

\* the LowerBound constraints of the transformed adversarial property
AdversarialLowerBounds ==
    {tproperty.output_constraints[i] : i \in
        {j \in DOMAIN tproperty.output_constraints :
            tproperty.output_constraints[j].kind = "LowerBound"}}

\* an adversarial property with minimal_is_the_winner = False and at least
\* two LowerBound constraints has been transformed
AdversarialMaxCase ==
    /\ tresult # NoResult
    /\ IsInstance(tproperty, "AdversarialProperty")
    /\ ~tproperty.minimal_is_the_winner
    /\ Cardinality(AdversarialLowerBounds) >= 2

\* the winner has the largest lower bound, the runner-up the largest among
\* the others
WinnerAndRunnerupAreTopTwo ==
    LET wr == find_winner_and_runnerup(tproperty)
    IN  \E cw, cr \in AdversarialLowerBounds :
            /\ cw.nid = wr[1] /\ cr.nid = wr[2] /\ cw # cr
            /\ \A c \in AdversarialLowerBounds : c.bound <= cw.bound
            /\ \A c \in AdversarialLowerBounds \ {cw} : c.bound <= cr.bound

\* the value of an output neuron of the network that was transformed
OriginalOutput(x, nid) ==
    evaluate(orig, <<x>>)[PosOf(output_ids(orig), nid)]

SingleOutputConstraint ==
    /\ output_ids(tresult.network) = <<ADVERSARIAL_PROPERTY_OUTPUT_NEURON_ID>>
    /\ tresult.property.output_constraints
          = <<LowerBound(ADVERSARIAL_PROPERTY_OUTPUT_NEURON_ID, 0)>>

\* C12 (as stated): with minimal_is_the_winner = False the winner and the
\* runner-up have the largest and the second largest lower bound, the single
\* new output neuron evaluates to y_winner - y_runnerup - slack on every
\* input, and the output constraints are [LowerBound(new_output, 0)]
C12_AsStated ==
    AdversarialMaxCase =>
        LET wr == find_winner_and_runnerup(tproperty)
        IN  /\ ~IsErr(tresult)
            /\ WinnerAndRunnerupAreTopTwo
            /\ SingleOutputConstraint
            /\ \A x \in InputValues :
                  evaluate(tresult.network, <<x>>)
                    = <<OriginalOutput(x, wr[1]) - OriginalOutput(x, wr[2])
                        - tproperty.slack>>

\* C12 (amended): as stated, but the new output neuron evaluates to
\* y_runnerup - y_winner - slack
C12_AdversarialTransform ==
    AdversarialMaxCase =>
        LET wr == find_winner_and_runnerup(tproperty)
        IN  /\ ~IsErr(tresult)
            /\ WinnerAndRunnerupAreTopTwo
            /\ SingleOutputConstraint
            /\ \A x \in InputValues :
                  evaluate(tresult.network, <<x>>)
                    = <<OriginalOutput(x, wr[2]) - OriginalOutput(x, wr[1])
                        - tproperty.slack>>

\* the scenario y0 with bound 5 and y1 with bound 2: winner y0, runner-up y1,
\* and an input on which the two outputs differ
C12_Witness ==
    /\ AdversarialMaxCase
    /\ tproperty.output_constraints
          = <<LowerBound(OutY1, 5), LowerBound(OutY2, 2)>>
    /\ find_winner_and_runnerup(tproperty) = <<OutY1, OutY2>>
    /\ tproperty.slack = 1
    /\ \E x \in InputValues : OriginalOutput(x, OutY1) # OriginalOutput(x, OutY2)

----------------------------------------------------------------------------
(* Calls with unchecked arguments: the functions of abstraction.py,
   refine.py and datastructures.py are called on the caller's network with
   arguments that no strategy or policy has validated; `outcome` records
   the call and what it returned or raised, `net` is the caller's network
   object after the call. *)

\* a network in which the neurons 25 and 27 of layer 2 carry no
\* classification: NeuronIds are built by the caller, no table checks them
PartlyClassifiedIds == <<NegInc(26), Plain(25), PosInc(28), Plain(27)>>

PartlyClassified(n) ==
    [n EXCEPT !.weights[2].columns = PartlyClassifiedIds,
              !.weights[3].index   = PartlyClassifiedIds,
              !.biases[3].columns  = PartlyClassifiedIds]

\* the network after one step of abstract_network on the neurons 25 and 26
PartlyAbstracted(n) ==
    AbstractNetworkStep(n, 2, AbstractionStepFromStr(SimpleName(2),
                                  <<NegInc(25), NegInc(26)>>))

CallNetworks ==
    OriginalNetworks \cup {PartlyClassified(n) : n \in OriginalNetworks}
    \cup {CompleteAbstractionLeftToRight(n) : n \in OriginalNetworks}
    \cup {PartlyAbstracted(n) : n \in OriginalNetworks}

IsCall(op) == "op" \in DOMAIN outcome /\ outcome.op = op

InitCalls ==
    /\ orig \in CallNetworks
    /\ net = orig
    /\ pre = orig
    /\ lastOp = NoOp
    /\ counter = [l \in 2..3 |-> 1]
    /\ uprop = NoProperty /\ uresult = NoProperty
    /\ ubefore = NoBounds /\ uafter = NoBounds
    /\ CegarIdle /\ TransIdle

\* a behaviour makes one call: a call reads the caller's network only and
\* leaves nothing behind that a later call would read
Uncalled == outcome = NoResult

\* the new name of the steps the calls are made with
CallName(layer_index) == 10 * layer_index + 9

\* the three tables updated where they are
LayerInputsUpdated(incoming, outgoing, biases, s) ==
    LET r == IF s.kind = "refine"
             THEN refine_layer(incoming, outgoing, biases, s.step)
             ELSE abstract_layer(incoming, outgoing, biases, s.step)
    IN  IF IsErr(r) THEN Layer3(incoming, outgoing, biases) ELSE r

\* the three tables handed to abstract_layer or refine_layer as the call
\* leaves them: drop() and concat() build new frames, the origin is assigned
\* to the new table, extend() and append() act on the new table's list
LayerInputs(incoming, outgoing, biases, s) ==
    Layer3(incoming, outgoing, biases)

\* abstract_layer on the three tables of a layer, with a step over any two
\* neurons of the layer in any order
AbstractLayerCall ==
    \E layer_index \in 1..(layers_count(net) - 2) :
    \E a, b \in LayerIds(net, layer_index) :
        /\ Uncalled
        /\ a # b
        /\ LET l == LayerOf(net, layer_index)
               step == AbstractionStepFromStr(CallName(layer_index), <<a, b>>)
           IN  outcome' = [op |-> "abstract_layer", layer |-> layer_index,
                           step |-> step,
                           inputs |-> LayerInputs(l.incoming, l.outgoing,
                                          l.biases, AStep(layer_index, step)),
                           result |-> abstract_layer(l.incoming, l.outgoing,
                                                     l.biases, step)]
        /\ UNCHANGED <<layerVars, updVars, cegarVars, transVars>>

\* the loop of abstract_network over the steps a strategy yields in turn,
\* from step i on: the network returned, or the error raised
RECURSIVE AbstractNetworkFrom(_, _, _)
AbstractNetworkFrom(current_network, steps, i) ==
    IF i > Len(steps) THEN current_network
    ELSE LET r == AbstractNetworkStep(current_network, steps[i].layer,
                                      steps[i].step)
         IN  IF IsErr(r) THEN r ELSE AbstractNetworkFrom(r, steps, i + 1)

\* the network as the steps before the first failing one leave it
RECURSIVE AppliedPrefix(_, _, _)
AppliedPrefix(current_network, steps, i) ==
    IF i > Len(steps) THEN current_network
    ELSE LET r == AbstractNetworkStep(current_network, steps[i].layer,
                                      steps[i].step)
         IN  IF IsErr(r) THEN current_network
             ELSE AppliedPrefix(r, steps, i + 1)

\* abstract_network working on the caller's own lists
abstract_network_in_place(network, steps) ==
    [caller |-> AppliedPrefix(network, steps, 1),
     result |-> AbstractNetworkFrom(network, steps, 1)]

\* a call of abstract_network: the lists of the network are copied and the
\* steps assign into the copies, every table a step makes is a new object;
\* `caller` is the caller's network after the call
abstract_network_call(network, steps) ==
    [caller |-> network,
     result |-> AbstractNetworkFrom(network, steps, 1)]

\* steps over two same-typed neurons of a hidden layer
CandidateSteps(n) ==
    {AStep(layer_index, AbstractionStepFromStr(CallName(layer_index),
                                               <<a, b>>)) :
        <<layer_index, a, b>> \in
            {t \in UNION {{l} \X LayerIds(n, l) \X LayerIds(n, l) :
                                l \in 2..(layers_count(n) - 2)} :
                NidLt(t[2], t[3]) /\ NidType(t[2]) = NidType(t[3])}}

\* the same steps with any layer index, from -1 to layers_count()
AnyLayerSteps(n) ==
    {[s EXCEPT !.layer = layer_index] :
        s \in CandidateSteps(n), layer_index \in (-1)..layers_count(n)}

\* abstract_network with a strategy that yields one or two steps, the last
\* of them with an unchecked layer index
AbstractNetworkCall ==
    \E steps \in {<<s>> : s \in AnyLayerSteps(net)} \cup
                 {<<v, s>> : v \in CandidateSteps(net),
                             s \in AnyLayerSteps(net)} :
        LET c == abstract_network_call(net, steps)
        IN  /\ Uncalled
            /\ outcome' = [op |-> "abstract_network", steps |-> steps,
                           result |-> c.result]
            /\ net' = c.caller
            /\ UNCHANGED <<orig, pre, lastOp, counter, updVars, cegarVars,
                           transVars>>

\* list[i] of Python: positions 0..len-1, and -len..-1 counted from the end
InRange(len, i) == -len <= i /\ i < len
ListPos(len, i) == IF i < 0 THEN len + i + 1 ELSE i + 1

\* the call of the loop body: refine_layer for a RefinementStep,
\* abstract_layer for an AbstractionStep
LayerCall(incoming, outgoing, biases, s) ==
    IF s.kind = "refine"
    THEN refine_layer(incoming, outgoing, biases, s.step)
    ELSE abstract_layer(incoming, outgoing, biases, s.step)

\* the three results r of the call assigned to the list items, then the
\* statistics: with parts given, new_weights[layer_index].srcs is read
AssignLayer(n, layer_index, s, r) ==
    LET lw == Len(n.weights)
        lb == Len(n.biases)
    IN  IF IsErr(r) THEN r
        ELSE IF /\ s.kind = "refine" /\ ~s.step.parts_none
                /\ r.outgoing = NoTable
        THEN Err("AttributeError")
        ELSE Network(
                [[n.weights EXCEPT ![ListPos(lw, layer_index - 1)] = r.incoming]
                    EXCEPT ![ListPos(lw, layer_index)] = r.outgoing],
                [n.biases EXCEPT ![ListPos(lb, layer_index)] = r.biases],
                n.activations)

\* one iteration of the loop of refine_network (and of
\* refine_until_not_satisfying) for the pair (layer_index, step): the three
\* list items are read, refine_layer or abstract_layer is called, the three
\* results are assigned, the statistics are collected.  No condition on
\* layer_index is evaluated.
RefineNetworkIteration(n, layer_index, s) ==
    LET lw == Len(n.weights)
        lb == Len(n.biases)
    IN  IF \/ ~InRange(lw, layer_index - 1) \/ ~InRange(lw, layer_index)
           \/ ~InRange(lb, layer_index)
        THEN Err("IndexError")
        ELSE AssignLayer(n, layer_index, s,
                 LayerCall(n.weights[ListPos(lw, layer_index - 1)],
                           n.weights[ListPos(lw, layer_index)],
                           n.biases[ListPos(lb, layer_index)], s))

\* the caller's network after the loop body ran for (layer_index, step):
\* the assignments go to the copied lists, the caller's lists keep the
\* tables the layer call was handed
CallerAfter(network, s) ==
    LET lw == Len(network.weights)
        lb == Len(network.biases)
    IN  IF \/ ~InRange(lw, s.layer - 1) \/ ~InRange(lw, s.layer)
           \/ ~InRange(lb, s.layer)
        THEN network
        ELSE LET a == LayerInputs(network.weights[ListPos(lw, s.layer - 1)],
                                  network.weights[ListPos(lw, s.layer)],
                                  network.biases[ListPos(lb, s.layer)], s)
             IN  Network(
                    [[network.weights
                        EXCEPT ![ListPos(lw, s.layer - 1)] = a.incoming]
                        EXCEPT ![ListPos(lw, s.layer)] = a.outgoing],
                    [network.biases EXCEPT ![ListPos(lb, s.layer)] = a.biases],
                    network.activations)

\* a call of refine_network with a policy that returns one step
refine_network_call(network, s) ==
    [caller |-> CallerAfter(network, s),
     result |-> RefineNetworkIteration(network, s.layer, s)]

\* a NeuronId of the same name and type built without original_neurons
Stripped(nid) == NeuronId(nid.name, nid.sign, nid.scaling, {})

AllIds(n) == UNION {LayerIds(n, l) : l \in 0..(layers_count(n) - 1)}

\* the steps a policy may return for a network: the refinement of any neuron,
\* wholly or by parts, and the abstraction steps
PolicySteps(n) ==
    {RStep(0, RefinementStepAll(t)) : t \in AllIds(n)}
    \cup {RStep(0, RefinementStep(t, SortedSeq(P))) :
             <<t, P>> \in UNION {{t} \X (SUBSET t.original_neurons \ {{}}) :
                                    t \in AllIds(n)}}
    \cup {RStep(0, RefinementStep(t, <<t>>)) :
             t \in {x \in AllIds(n) : ~IsAbstract(x)}}
    \cup {RStep(0, RefinementStepAll(Stripped(t))) :
             t \in {x \in AllIds(n) : IsAbstract(x)}}
    \cup CandidateSteps(n)

\* refine_network with a policy that returns one step with an unchecked
\* layer index, from -1 to layers_count()
RefineNetworkCall ==
    \E p \in PolicySteps(net) :
    \E layer_index \in (-1)..layers_count(net) :
        LET s == [p EXCEPT !.layer = layer_index]
            c == refine_network_call(net, s)
        IN  /\ Uncalled
            /\ outcome' = [op |-> "refine_network", layer |-> layer_index,
                           step |-> s, result |-> c.result]
            /\ net' = c.caller
            /\ UNCHANGED <<orig, pre, lastOp, counter, updVars, cegarVars,
                           transVars>>

\* a new_name given as a str
StrName(name) == [str |-> name]
IsStrName(new_name) == "str" \in DOMAIN new_name

\* AbstractionStep(new_name, nodes): the two branches of __init__
AbstractionStep(new_name, nodes) ==
    IF IsStrName(new_name) THEN AbstractionStepFromStr(new_name.str, nodes)
    ELSE AbstractionStepFromId(new_name, nodes)

\* the neurons of the hidden layers 2 and 3
HiddenIds(n) == LayerIds(n, 2) \cup LayerIds(n, 3)

\* lists of up to two distinct neurons
NodeLists(ids) ==
    {<<>>} \cup {<<a>> : a \in ids}
    \cup {<<a, b>> : <<a, b>> \in {t \in ids \X ids : t[1] # t[2]}}

\* the new names: a str, or a NeuronId of any type found in the layers
NewNames(ids) ==
    {StrName(CallName(2))}
    \cup {NeuronId(CallName(2), t[1], t[2], {}) : t \in {NidType(x) : x \in ids}}

\* the construction of an AbstractionStep from any new name and any list of
\* neurons of the hidden layers
AbstractionStepCall ==
    \E new_name \in NewNames(HiddenIds(net)) :
    \E nodes \in NodeLists(HiddenIds(net)) :
        /\ Uncalled
        /\ outcome' = [op |-> "AbstractionStep", new_name |-> new_name,
                       nodes |-> nodes,
                       result |-> AbstractionStep(new_name, nodes)]
        /\ UNCHANGED <<layerVars, updVars, cegarVars, transVars>>

\* NeuronIds of two names, of every type, with and without provenance
ComparedIds ==
    {NeuronId(name, t[1], t[2], original_neurons) :
        name \in {25, 26},
        t \in {<<"Neg", "Inc">>, <<"Pos", "Inc">>, <<"Neg", "Dec">>,
                <<NoneT, NoneT>>},
        original_neurons \in {{}, {NegInc(27), NegInc(28)}}}

\* a == b, a < b, hash(a) and hash(b) for two NeuronIds
CompareCall ==
    \E a, b \in ComparedIds :
        /\ Uncalled
        /\ outcome' = [op |-> "compare", a |-> a, b |-> b,
                       eq |-> NidEq(a, b), lt |-> NidLtResult(a, b),
                       hashes |-> <<NidHash(a), NidHash(b)>>]
        /\ UNCHANGED <<layerVars, updVars, cegarVars, transVars>>

NextCalls ==
    \/ AbstractLayerCall
    \/ AbstractNetworkCall
    \/ RefineNetworkCall
    \/ AbstractionStepCall
    \/ CompareCall

SpecCalls == InitCalls /\ [][NextCalls]_vars

IsClassified(nid) == nid.sign # NoneT /\ nid.scaling # NoneT

\* C13: abstract_layer fails with an error and returns no tables whenever
\* at least one neuron of step.nodes has a null sign or a null scaling
C13_UnclassifiedRejected ==
    (/\ IsCall("abstract_layer")
     /\ \E k \in DOMAIN outcome.step.nodes :
            ~IsClassified(outcome.step.nodes[k]))
        => IsErr(outcome.result)

\* what the code rejects: a step whose first node is unclassified
C13_FirstNodeRejected ==
    (/\ IsCall("abstract_layer")
     /\ ~IsClassified(First(outcome.step.nodes)))
        => outcome.result = Err("AssertionError")

\* layer_index <= 1 or layer_index >= layers_count() - 1
OutOfBounds(n, layer_index) ==
    layer_index <= 1 \/ layer_index >= layers_count(n) - 1

\* the steps before position i were applied without an error
PrefixApplies(n, steps, i) ==
    ~IsErr(AbstractNetworkFrom(n, SubSeq(steps, 1, i - 1), 1))

\* C14: abstract_network fails with an error for any strategy step whose
\* layer_index is <= 1 or >= layers_count() - 1, without applying that step
\* to any table, and the caller's input network is left unchanged
C14_AbstractionIndexBounds ==
    IsCall("abstract_network") =>
        \A i \in DOMAIN outcome.steps :
            (/\ OutOfBounds(orig, outcome.steps[i].layer)
             /\ PrefixApplies(orig, outcome.steps, i))
                => /\ outcome.result = Err("ValueError")
                   /\ net = orig

\* a strategy whose first step is applied and whose second step names the
\* output layer
C14_Witness ==
    /\ IsCall("abstract_network")
    /\ Len(outcome.steps) = 2
    /\ outcome.steps[2].layer = layers_count(orig) - 1
    /\ PrefixApplies(orig, outcome.steps, 2)
    /\ AbstractNetworkFrom(orig, SubSeq(outcome.steps, 1, 1), 1) # orig
    /\ IsErr(outcome.result)

\* the index of the input layer, of the output layer, or of no layer
NotRefinable(n, layer_index) ==
    layer_index <= 0 \/ layer_index >= layers_count(n) - 1

\* a step as the policies emit them: the refinement of an abstract neuron
\* of the network, wholly or by some of its original neurons, or an
\* abstraction step over neurons of the network
EmittedStep(n, s) ==
    IF s.kind = "refine"
    THEN /\ s.step.target_neuron \in AllIds(n)
         /\ IsAbstract(s.step.target_neuron)
         /\ Range(s.step.parts) \subseteq s.step.target_neuron.original_neurons
    ELSE Range(s.step.nodes) \subseteq AllIds(n)

\* C15: refine_network fails with an error, before changing any table, when
\* a policy emits a step whose layer index targets the input layer, the
\* output layer or an out-of-range index
C15_RefinementIndexBounds ==
    (/\ IsCall("refine_network")
     /\ NotRefinable(orig, outcome.layer)
     /\ EmittedStep(orig, outcome.step))
        => IsErr(outcome.result) /\ net = orig

\* what the code gives for the output layer and beyond: an IndexError of the
\* list access, or an error of the layer operation; no network is returned
C15_OutputLayerAndBeyond ==
    (IsCall("refine_network") /\ outcome.layer >= layers_count(orig) - 1)
        => IsErr(outcome.result) /\ net = orig

Constructed == IsCall("AbstractionStep") /\ ~IsErr(outcome.result)

\* C16: constructing an AbstractionStep fails when nodes has fewer than 2
\* members or when the type of a NeuronId given as new_name differs from
\* that of a member of nodes; every successfully constructed step has at
\* least 2 nodes that all share the type of step.new_name
C16_StepValidity ==
    IsCall("AbstractionStep") =>
        /\ Len(outcome.nodes) < 2 => IsErr(outcome.result)
        /\ (/\ ~IsStrName(outcome.new_name)
            /\ \E k \in DOMAIN outcome.nodes :
                  NidType(outcome.nodes[k]) # NidType(outcome.new_name))
               => IsErr(outcome.result)
        /\ ~IsErr(outcome.result) =>
              /\ Len(outcome.result.nodes) >= 2
              /\ \A k \in DOMAIN outcome.result.nodes :
                    NidType(outcome.result.nodes[k])
                      = NidType(outcome.result.new_name)

\* what the code checks: the number of nodes, and the type of the first node
C16_FirstNodeValidity ==
    IsCall("AbstractionStep") =>
        /\ Len(outcome.nodes) < 2 => outcome.result = Err("ValueError")
        /\ (/\ ~IsStrName(outcome.new_name) /\ Len(outcome.nodes) >= 2
            /\ NidType(First(outcome.nodes)) # NidType(outcome.new_name))
               => outcome.result = Err("ValueError")
        /\ ~IsErr(outcome.result) =>
              /\ Len(outcome.result.nodes) >= 2
              /\ NidType(First(outcome.result.nodes))
                    = NidType(outcome.result.new_name)

\* the concrete neurons a neuron stands for
Provenance(nid) ==
    IF IsAbstract(nid) THEN nid.original_neurons ELSE {nid}

\* C17: for every constructed AbstractionStep, new_name.original_neurons is
\* the flattened union of the grouped neurons' provenance (an abstract
\* member contributes its concrete original neurons, not itself), and the
\* sign and scaling of new_name are the group's shared type
C17_FlattenedProvenance ==
    Constructed =>
        /\ outcome.result.new_name.original_neurons
              = UNION {Provenance(m) : m \in Range(outcome.nodes)}
        /\ SameType(Range(outcome.nodes)) =>
              NidType(outcome.result.new_name) = NidType(First(outcome.nodes))

\* what the code builds: the provenance is the set of the nodes themselves,
\* the type is the type of the first node
C17_ProvenanceIsNodes ==
    Constructed =>
        /\ outcome.result.new_name.original_neurons = Range(outcome.nodes)
        /\ NidType(outcome.result.new_name) = NidType(First(outcome.nodes))

\* the lexicographic order on (name, sign, scaling), the enumeration values
\* in the order of their strings
LexLess(a, b) ==
    LET x == <<a.name, TagRank(a.sign), TagRank(a.scaling)>>
        y == <<b.name, TagRank(b.sign), TagRank(b.scaling)>>
    IN  \E i \in 1..3 : x[i] < y[i] /\ \A j \in 1..(i - 1) : x[j] = y[j]

\* a refinement step whose target was built without provenance, for a layer
\* that holds an abstract neuron of the same name and type
StrippedLookup ==
    /\ IsCall("refine_network")
    /\ outcome.step.kind = "refine"
    /\ outcome.layer \in 2..(layers_count(orig) - 2)
    /\ ~IsAbstract(outcome.step.step.target_neuron)
    /\ \E x \in LayerIds(orig, outcome.layer) :
          /\ IsAbstract(x)
          /\ x.name = outcome.step.step.target_neuron.name
          /\ NidType(x) = NidType(outcome.step.step.target_neuron)

OriginIs(t, c) ==
    /\ OriginOf(t) = c
    /\ t.steps = <<>> => t.orig = NoTable
    /\ OriginOf(t).steps = <<>> /\ OriginOf(t).orig = NoTable

\* C19: after any sequence of abstract_layer and refine_layer operations on
\* a layer and its neighbours, the origin of every resulting table is the
\* concrete table the sequence started from (a table with no abstraction is
\* its own origin), and that origin table's labels, values and empty history
\* are never changed
C19_OriginSetOnce ==
    /\ \A i \in DOMAIN net.weights : OriginIs(net.weights[i], orig.weights[i])
    /\ \A i \in DOMAIN net.biases : OriginIs(net.biases[i], orig.biases[i])

\* a refinement has left a table that was abstracted twice and still
\* carries a history
C19_Witness ==
    /\ lastOp.kind = "refine"
    /\ \E i \in DOMAIN net.biases :
          /\ net.biases[i].steps # <<>>
          /\ Len(pre.biases[i].steps) >= 2
          /\ net.biases[i] # pre.biases[i]

UniqueLabels(labels) ==
    \A i, j \in DOMAIN labels : NidEq(labels[i], labels[j]) => i = j

\* C20: starting from a network that passes Network.verify(), after any
\* sequence of steps on the layers 2..layers_count()-2 the network has
\* unique row and column labels, weights[i].dests equal to weights[i+1].srcs
\* and to biases[i+1].ids in the same order for every i, and
\* len(weights) + 1 == len(biases) == len(activations)
C20_StructurePreserved ==
    verify(orig) =>
        /\ \A i \in DOMAIN net.weights :
              /\ UniqueLabels(Srcs(net.weights[i]))
              /\ UniqueLabels(Dests(net.weights[i]))
              /\ net.weights[i].columns = net.biases[i + 1].columns
              /\ i < Len(net.weights) =>
                    net.weights[i].columns = net.weights[i + 1].index
        /\ \A i \in DOMAIN net.biases : UniqueLabels(Ids(net.biases[i]))
        /\ verify(net)
        /\ Len(net.weights) + 1 = Len(net.biases)
        /\ Len(net.biases) = Len(net.activations)

\* both hidden layers hold an abstract neuron after a refinement, and
\* layer 2 has fewer neurons than in the original network
C20_Witness ==
    /\ verify(orig)
    /\ lastOp.kind = "refine"
    /\ \A l \in 2..3 : \E x \in LayerIds(net, l) : IsAbstract(x)
    /\ Len(net.biases[3].columns) < Len(orig.biases[3].columns)

----------------------------------------------------------------------------
(* Partial and full refinement *)

\* the neurons of the refined layer after the last operation
RefinedLayerIds == LayerIds(net, lastOp.layer)

\* the abstract neuron of the target's name and type still in the layer
RemainingAbstract ==
    {x \in RefinedLayerIds : NidEq(x, lastOp.step.target_neuron)}

\* after refine_layer with parts = None the target is absent from the
\* layer and every member of its provenance is individually present
FullRefinementExposesAll ==
    (lastOp.kind = "refine" /\ lastOp.step.parts_none) =>
        /\ RemainingAbstract = {}
        /\ lastOp.step.target_neuron.original_neurons \subseteq RefinedLayerIds

\* C21 (as stated): after refine_layer with parts a non-empty strict subset
\* of the target's provenance, the layer contains every part as an
\* individual neuron and still contains an abstract neuron with the
\* target's name whose provenance is the target's provenance minus parts;
\* after refine_layer with parts = None the target is absent from the layer
\* and every member of its provenance is individually present
C21_AsStated ==
    /\ IsPartialRefine =>
          /\ Range(lastOp.step.parts) \subseteq RefinedLayerIds
          /\ \E x \in RemainingAbstract : x.original_neurons = RemainingParts
    /\ FullRefinementExposesAll

\* C21 (amended): the abstract neuron of the target's name remains, with
\* the provenance minus parts, when at least two members remain; when
\* exactly one member remains the abstract neuron is removed and that
\* member is individually present as well
C21_PartialVersusFull ==
    /\ IsPartialRefine =>
          /\ Range(lastOp.step.parts) \subseteq RefinedLayerIds
          /\ IF Cardinality(RemainingParts) >= 2
             THEN \E x \in RemainingAbstract :
                      x.original_neurons = RemainingParts
             ELSE /\ RemainingAbstract = {}
                  /\ RemainingParts \subseteq RefinedLayerIds
    /\ FullRefinementExposesAll

\* a partial refinement that leaves one member: the target is gone
C21_Witness ==
    /\ IsPartialRefine
    /\ Cardinality(RemainingParts) = 1
    /\ RemainingAbstract = {}
    /\ Cardinality(lastOp.step.target_neuron.original_neurons) >= 3

----------------------------------------------------------------------------
(* What the refinement policies select *)

\* the policy is about to be called with the current network
PolicyAsked == pc \in {"refine", "ru_strategy"}

\* the positions of the RefinementSteps of a batch
RefinementPositions(steps) == {i \in DOMAIN steps : steps[i].kind = "refine"}

\* every RefinementStep of the batch is paired with a layer of
\* 2..layers_count()-2, targets an abstract neuron of that layer of n and
\* lists members of the target's provenance; the parts of different steps
\* are disjoint and at most k neurons are listed in all
SelectsOnlyAbstracted(n, steps, k) ==
    LET R == RefinementPositions(steps)
    IN  /\ \A i \in R :
              /\ steps[i].layer \in 2..(layers_count(n) - 2)
              /\ steps[i].step.target_neuron \in LayerIds(n, steps[i].layer)
              /\ IsAbstract(steps[i].step.target_neuron)
              /\ ~steps[i].step.parts_none
              /\ Range(steps[i].step.parts)
                    \subseteq steps[i].step.target_neuron.original_neurons
        /\ \A i, j \in R :
              i # j => Range(steps[i].step.parts)
                          \cap Range(steps[j].step.parts) = {}
        /\ SumOver(R, [i \in R |-> Len(steps[i].step.parts)]) <= k

\* C22: every RefinementStep a policy emits for the network it is given is
\* paired with a layer index in 2..layers_count()-2, targets an abstract
\* neuron present in that layer and lists only members of the target's
\* provenance as parts; no original neuron is a part of two emitted steps
\* and at most k original neurons are selected in total
C22_PoliciesSelectAbstracted ==
    PolicyAsked =>
        \A b \in StrategySteps(net) :
            SelectsOnlyAbstracted(net, b.steps, policy.k)

\* a policy asked on a network that was refined before emits a batch with
\* RefinementSteps for two abstract neurons
C22_Witness ==
    /\ PolicyAsked
    /\ calls >= 2
    /\ \E b \in StrategySteps(net) :
          Cardinality(RefinementPositions(b.steps)) >= 2

----------------------------------------------------------------------------
(* The inputs of a call after the call *)

\* a call of abstract_layer leaves its three input tables as they were; a
\* call of abstract_network or of refine_network (whose loop body is the one
\* of refine_until_not_satisfying) leaves the caller's network as it was
InputsKept ==
    /\ IsCall("abstract_layer")' =>
          outcome'.inputs = LayerOf(net, outcome'.layer)
    /\ (IsCall("abstract_network")' \/ IsCall("refine_network")') =>
          net' = net

----------------------------------------------------------------------------
(* abstraction.py: the generator protocol between abstract_network and an
   AbstractionStrategy.  outcome holds the run: the position of the
   strategy, the networks its generator function received, the steps it
   yielded, current_network and the value returned or the error raised *)

MaxYielded == 2

\* the caller's network handed on at every send
SentCallerNetwork(wrapped, network, current_network) == network

\* steps.send(current_network): the network the generator function receives;
\* the generator of from_generator_function hands the network it was sent
\* to gen_func's generator with steps.send(network)
SentNetwork(wrapped, network, current_network) == current_network

Running(pos) == IsCall("abstract_network_run") /\ outcome.pos = pos

\* abstract_network up to next(steps): the lists are copied, the generator is
\* started and stops at its first yield (from_generator_function starts
\* gen_func's generator as well)
StartStrategy ==
    /\ Uncalled
    /\ \E wrapped \in BOOLEAN :
          outcome' = [op |-> "abstract_network_run", wrapped |-> wrapped,
                      pos |-> "waiting", sent |-> <<>>, yielded |-> <<>>,
                      current |-> net, result |-> NoResult]
    /\ UNCHANGED <<layerVars, updVars, cegarVars, transVars>>

\* steps.send(current_network) answered by a step: the strategy chooses the
\* step from the network it received
StrategyYields ==
    /\ Running("waiting")
    /\ Len(outcome.yielded) < MaxYielded
    /\ LET received == SentNetwork(outcome.wrapped, net, outcome.current)
       IN  \E s \in AnyLayerSteps(received) :
              outcome' = [outcome EXCEPT
                             !.sent = Append(@, received),
                             !.yielded = Append(@, s),
                             !.pos = "yielded"]
    /\ UNCHANGED <<layerVars, updVars, cegarVars, transVars>>

\* steps.send(current_network) answered by StopIteration: current_network
\* is returned
StrategyStops ==
    /\ Running("waiting")
    /\ outcome' = [outcome EXCEPT
                      !.sent = Append(@, SentNetwork(outcome.wrapped, net,
                                                     outcome.current)),
                      !.pos = "returned",
                      !.result = outcome.current]
    /\ UNCHANGED <<layerVars, updVars, cegarVars, transVars>>

\* the body of the loop for the step received: the check of the layer
\* index, abstract_layer, the assignment into the copied lists
ApplyYielded ==
    /\ Running("yielded")
    /\ LET s == outcome.yielded[Len(outcome.yielded)]
           r == AbstractNetworkStep(outcome.current, s.layer, s.step)
       IN  outcome' = IF IsErr(r)
                      THEN [outcome EXCEPT !.pos = "raised", !.result = r]
                      ELSE [outcome EXCEPT !.pos = "waiting", !.current = r]
    /\ UNCHANGED <<layerVars, updVars, cegarVars, transVars>>

NextStrategy ==
    \/ StartStrategy
    \/ StrategyYields
    \/ StrategyStops
    \/ ApplyYielded

SpecStrategy == InitCalls /\ [][NextStrategy]_vars

\* the caller's network with the first k yielded steps applied in order
EffectOfFirst(k) ==
    AbstractNetworkFrom(net, SubSeq(outcome.yielded, 1, k), 1)

\* C24: abstract_network applies the steps in the order the strategy yields
\* them: the k-th network the strategy received (before it produced its
\* k-th step) is the caller's network with exactly the first k-1 steps
\* applied, current_network is the caller's network with every applied step
\* in order, and when the strategy finishes the network returned is the
\* caller's network with every yielded step applied and nothing else; the
\* same for a strategy made by from_generator_function
C24_StrategyProtocol ==
    IsCall("abstract_network_run") =>
        /\ \A k \in DOMAIN outcome.sent :
              outcome.sent[k] = EffectOfFirst(k - 1)
        /\ outcome.pos = "waiting" =>
              outcome.current = EffectOfFirst(Len(outcome.yielded))
        /\ outcome.pos = "yielded" =>
              outcome.current = EffectOfFirst(Len(outcome.yielded) - 1)
        /\ outcome.pos = "returned" =>
              /\ outcome.result = EffectOfFirst(Len(outcome.yielded))
              /\ Len(outcome.sent) = Len(outcome.yielded) + 1

\* a wrapped strategy finished after two steps that changed the network
C24_Witness ==
    /\ Running("returned")
    /\ outcome.wrapped
    /\ Len(outcome.yielded) = 2
    /\ outcome.sent[2] # net
    /\ outcome.result # outcome.sent[2]

----------------------------------------------------------------------------
(* The history a refinement leaves in a table *)

\* the positions of the nodes of an entry that are outside a discard set
Outside(entry, D) ==
    {k \in DOMAIN entry.step.nodes : ~NidIn(entry.step.nodes[k], D)}

\* the discard set in use when entry i of the history is reached: the given
\* set and the new_name of every earlier entry of the axis that was dropped
RECURSIVE DiscardBefore(_, _, _, _)
DiscardBefore(history, i, to_discard, axis) ==
    IF i = 1 THEN to_discard
    ELSE LET D == DiscardBefore(history, i - 1, to_discard, axis)
         IN  IF /\ history[i - 1].axis = axis
                /\ Cardinality(Outside(history[i - 1], D)) < 2
             THEN D \cup {history[i - 1].step.new_name}
             ELSE D

\* the entries that are not dropped
KeptEntries(history, to_discard, axis) ==
    {i \in DOMAIN history :
        \/ history[i].axis # axis
        \/ Cardinality(Outside(history[i],
                  DiscardBefore(history, i, to_discard, axis))) >= 2}

\* the j-th smallest member of a set of positions
Nth(K, j) == CHOOSE i \in K : Cardinality({m \in K : m < i}) = j - 1

\* new_steps is the history filtered as described: the kept entries in
\* their order; an entry of the other axis, or one with every node outside
\* the discard set, as it was; another entry of the axis with its name and
\* the nodes outside the discard set, in their order
FilteredAsDescribed(new_steps, history, to_discard, axis) ==
    LET K == KeptEntries(history, to_discard, axis)
    IN  /\ Len(new_steps) = Cardinality(K)
        /\ \A j \in DOMAIN new_steps :
              LET i == Nth(K, j)
                  O == Outside(history[i],
                               DiscardBefore(history, i, to_discard, axis))
              IN  IF history[i].axis # axis
                     \/ O = DOMAIN history[i].step.nodes
                  THEN new_steps[j] = history[i]
                  ELSE /\ new_steps[j].axis = axis
                       /\ NidEq(new_steps[j].step.new_name,
                                history[i].step.new_name)
                       /\ new_steps[j].step.nodes =
                             [k \in 1..Cardinality(O) |->
                                 history[i].step.nodes[Nth(O, k)]]

\* the network after the steps {25, 26} -> 20 and {20, 27} -> 29 on layer
\* 2, with the layers of layers_order abstracted afterwards
NestedAbstracted(n, layers_order) ==
    LET first == PartlyAbstracted(n)
        merged == CHOOSE x \in LayerIds(first, 2) : IsAbstract(x)
    IN  abstract_network(
            AbstractNetworkStep(first, 2,
                AbstractionStepFromStr(CallName(2), <<merged, NegInc(27)>>)),
            layers_order)

FilterNetworks ==
    UNION {{PartlyAbstracted(n), NestedAbstracted(n, <<>>),
            NestedAbstracted(n, <<3>>), CompleteAbstractionLeftToRight(n),
            CompleteAbstractionRightToLeft(n)} : n \in OriginalNetworks}

InitFilter ==
    /\ orig \in FilterNetworks
    /\ net = orig
    /\ pre = orig
    /\ lastOp = NoOp
    /\ counter = [l \in 2..3 |-> 1]
    /\ uprop = NoProperty /\ uresult = NoProperty
    /\ ubefore = NoBounds /\ uafter = NoBounds
    /\ CegarIdle /\ TransIdle

\* the discard sets: one or two neurons of the hidden layers of the
\* original network
DiscardSets ==
    {D \in SUBSET (Range(IdsLayer2) \cup Range(IdsLayer3)) :
        Cardinality(D) \in 1..2}

\* _filter_abstraction_steps on a table of the network, with a discard set
\* and an axis
FilterCall ==
    \E table \in Range(net.weights) \cup Range(net.biases) :
    \E to_discard \in DiscardSets :
    \E axis \in 0..1 :
        /\ Uncalled
        /\ outcome' = [op |-> "filter", history |-> table.steps,
                       to_discard |-> to_discard, axis |-> axis,
                       result |-> _filter_abstraction_steps(table, to_discard,
                                                            axis)]
        /\ UNCHANGED <<layerVars, updVars, cegarVars, transVars>>

SpecFilter == InitFilter /\ [][FilterCall]_vars

\* C25: _filter_abstraction_steps scans the history in order: an entry on
\* the refined axis keeps only its nodes outside the discard set and is
\* dropped when fewer than 2 remain, its new_name then joining the discard
\* set for the later entries; entries of the other axis and entries of the
\* refined axis with no node in the discard set are kept with the same name
\* and nodes; the kept entries keep their relative order
C25_HistoryFiltering ==
    IsCall("filter") =>
        /\ ~outcome.result.raised
        /\ FilteredAsDescribed(outcome.result.steps, outcome.history,
                               outcome.to_discard, outcome.axis)

\* a history where an entry is dropped, a later entry loses the dropped
\* entry's new_name and is dropped as well, and an entry of the other axis
\* is kept
C25_Witness ==
    /\ IsCall("filter")
    /\ LET history == outcome.history
           axis == outcome.axis
           D == DiscardBefore(history, Len(history) + 1, outcome.to_discard,
                              axis)
       IN  /\ Cardinality(D \ outcome.to_discard) >= 2
           /\ \E i \in DOMAIN history : history[i].axis # axis
           /\ \E i \in DOMAIN history :
                 /\ history[i].axis = axis
                 /\ \A k \in DOMAIN history[i].step.nodes :
                       ~NidIn(history[i].step.nodes[k], outcome.to_discard)
                 /\ i \notin KeptEntries(history, outcome.to_discard, axis)

\* new_ids of refine_layer for the last operation
LastNewIds ==
    LET outgoing == W(pre, lastOp.layer)
        target_neuron ==
            outgoing.index[PosOf(outgoing.index, lastOp.step.target_neuron)]
    IN  IF ~lastOp.step.parts_none /\ lastOp.step.parts # <<>>
        THEN Range(lastOp.step.parts)
        ELSE target_neuron.original_neurons

\* the histories of the three tables refine_layer returns are the
\* histories of its three input tables filtered as described, with new_ids
\* as the discard set
RefinedHistoriesFiltered ==
    lastOp.kind = "refine" =>
        /\ FilteredAsDescribed(W(net, lastOp.layer - 1).steps,
                               W(pre, lastOp.layer - 1).steps, LastNewIds, 1)
        /\ FilteredAsDescribed(W(net, lastOp.layer).steps,
                               W(pre, lastOp.layer).steps, LastNewIds, 0)
        /\ FilteredAsDescribed(B(net, lastOp.layer).steps,
                               B(pre, lastOp.layer).steps, LastNewIds, 1)

----------------------------------------------------------------------------
(* The neurons a refinement does not name *)

\* the abstract neurons of the layer have pairwise disjoint provenance
DisjointProvenance(n, layer_index) ==
    \A x, y \in LayerIds(n, layer_index) :
        x # y => x.original_neurons \cap y.original_neurons = {}

\* the neurons of the refined layer other than the target, before the
\* refinement
OtherNeurons ==
    {x \in LayerIds(pre, lastOp.layer) :
        ~NidEq(x, lastOp.step.target_neuron)}

\* x has in network m the incoming weights, the bias and the outgoing
\* weights it has in network n
SameEdges(n, m, layer_index, x) ==
    /\ \A src \in Range(Srcs(W(n, layer_index - 1))) :
          TableGet(W(m, layer_index - 1), src, x)
              = TableGet(W(n, layer_index - 1), src, x)
    /\ TableGet(B(m, layer_index), UNIT, x)
          = TableGet(B(n, layer_index), UNIT, x)
    /\ \A dest \in Range(Dests(W(n, layer_index))) :
          TableGet(W(m, layer_index), x, dest)
              = TableGet(W(n, layer_index), x, dest)

\* layer 2 with two neurons of each of two types: neuron 27 classified
\* Pos/Inc, its only edge the increasing one to neuron 37
IdsLayer2Paired == <<NegInc(26), NegInc(25), PosInc(28), PosInc(27)>>

PairedNetwork(n) ==
    [n EXCEPT !.weights[2].columns = IdsLayer2Paired,
              !.weights[3].index   = IdsLayer2Paired,
              !.weights[3].values[4] = <<0, 0, 1>>,
              !.biases[3].columns  = IdsLayer2Paired]

PairedNetworks ==
    {m \in {PairedNetwork(n) : n \in OriginalNetworks} : IsPreprocessed(m)}

InitPaired ==
    /\ orig \in PairedNetworks
    /\ net = orig
    /\ pre = orig
    /\ lastOp = NoOp
    /\ counter = [l \in 2..3 |-> 1]
    /\ uprop = NoProperty /\ uresult = NoProperty
    /\ ubefore = NoBounds /\ uafter = NoBounds
    /\ CegarIdle /\ TransIdle

\* the abstractions and refinements of Spec on the networks whose layer 2
\* can hold two abstract neurons
SpecPaired == InitPaired /\ [][Next]_vars

\* C26: when the abstract neurons of a layer have pairwise disjoint
\* provenance and refine_layer is applied to a target with parts that are
\* members of its provenance (or None), every other neuron of the layer is
\* present afterwards with the same provenance, the same incoming weights
\* from every source, the same bias and the same outgoing weights to every
\* destination
C26_OthersIntact ==
    (lastOp.kind = "refine" /\ DisjointProvenance(pre, lastOp.layer)) =>
        \A x \in OtherNeurons :
            /\ x \in LayerIds(net, lastOp.layer)
            /\ SameEdges(pre, net, lastOp.layer, x)

\* a partial refinement in a layer that holds another abstract neuron,
\* next to a layer with an abstract neuron
C26_Witness ==
    /\ IsPartialRefine
    /\ DisjointProvenance(pre, lastOp.layer)
    /\ \E x \in OtherNeurons : IsAbstract(x) /\ x \in LayerIds(net, lastOp.layer)
    /\ \E l \in {lastOp.layer - 1, lastOp.layer + 1} :
          \E y \in LayerIds(pre, l) : IsAbstract(y)


----------------------------------------------------------------------------
(* A table, its origin and its history *)

\* the history of a table applied in order to its origin gives the labels
\* and the values of the table; a table without an origin has no history
HistoryReplays(t, replayed) ==
    IF t.orig = NoTable THEN t.steps = <<>>
    ELSE /\ ~IsErr(replayed)
         /\ replayed.index = t.index
         /\ replayed.columns = t.columns
         /\ replayed.values = t.values

\* the steps a table records on an axis, in order
StepsOnAxis(t, axis) ==
    LET entries == SelectSeq(t.steps, LAMBDA e : e.axis = axis)
    IN  [k \in DOMAIN entries |-> entries[k].step]

\* C27: re-applying the recorded history of a table in order to its origin
\* table reproduces the table's labels and values, for every table of a
\* network made by abstract_layer and refine_layer operations, and the
\* incoming table, the outgoing table and the bias table of a layer record
\* the same sequence of steps for that layer
C27_HistoryReplayConsistency ==
    /\ \A i \in DOMAIN net.weights :
          HistoryReplays(net.weights[i],
              ReplayWeights(net.weights[i].orig, net.weights[i].steps, 1))
    /\ \A i \in DOMAIN net.biases :
          HistoryReplays(net.biases[i],
              ReplayBiases(net.biases[i].orig, net.biases[i].steps, 1))
    /\ \A l \in 1..(layers_count(net) - 2) :
          /\ StepsOnAxis(W(net, l - 1), 1) = StepsOnAxis(B(net, l), 1)
          /\ StepsOnAxis(W(net, l), 0) = StepsOnAxis(B(net, l), 1)

\* after a partial refinement the table between the two hidden layers
\* records a step of each of them
C27_Witness ==
    /\ IsPartialRefine
    /\ StepsOnAxis(W(net, 2), 0) # <<>>
    /\ StepsOnAxis(W(net, 2), 1) # <<>>

----------------------------------------------------------------------------
(* What the conjunction transform keeps of the inequalities *)

\* the values the original outputs take
OutputValues == {0, 2, 5}

OutputAssignments == [{OutY1, OutY2, OutY3} -> OutputValues]

\* the linear form of an inequality under an assignment of the outputs
LinearForm(constraint, y) ==
    FoldSum([j \in DOMAIN constraint.vars |->
                constraint.vars[j].factor * y[constraint.vars[j].nid]])

\* the value of the i-th appended neuron: the weights of its column on the
\* outputs of its rows, and its bias
AppendedNeuronValue(network, i, y) ==
    LET w == network.weights[Len(network.weights)]
        b == network.biases[Len(network.biases)]
    IN  FoldSum([r \in DOMAIN w.index |-> w.values[r][i] * y[w.index[r]]])
        + b.values[1][i]

InequalityHolds(constraint, y) ==
    IF constraint.kind = "MultiVarLowerBound"
    THEN constraint.bound < LinearForm(constraint, y)
    ELSE LinearForm(constraint, y) < constraint.bound

OnAllowedSide(constraint, v) ==
    IF constraint.kind = "LowerBound" THEN v > constraint.bound
    ELSE v < constraint.bound

\* the transform returned a network and a property for a conjunction
ConjunctionTransformed ==
    /\ IsInstance(tproperty, "ACASXuConjunctionProperty")
    /\ tresult # NoResult
    /\ ~IsErr(tresult)

\* the i-th inequality holds exactly when the i-th appended neuron is on the
\* allowed side of the bound emitted for it, for the inequalities in I
MeaningPreserved(I) ==
    \A y \in OutputAssignments : \A i \in I :
        InequalityHolds(tproperty.output_constraints[i], y)
            <=> OnAllowedSide(tresult.property.output_constraints[i],
                              AppendedNeuronValue(tresult.network, i, y))

\* C28: for a Conjunction property whose inequalities have the same
\* direction, the i-th appended output neuron evaluates to the i-th
\* inequality's linear form minus its bound constant, so that for every
\* assignment of the original outputs, also for inequalities whose constant
\* is not zero, the i-th inequality holds exactly when the new neuron is on
\* the allowed side of the 0 bound emitted for it
C28_ConjunctionMeaning ==
    ConjunctionTransformed =>
        /\ \A y \in OutputAssignments :
           \A i \in DOMAIN tproperty.output_constraints :
              AppendedNeuronValue(tresult.network, i, y)
                  = LinearForm(tproperty.output_constraints[i], y)
                        - tproperty.output_constraints[i].bound
        /\ MeaningPreserved(DOMAIN tproperty.output_constraints)

\* the meaning is kept for the inequalities whose constant is zero
ZeroBoundMeaningPreserved ==
    ConjunctionTransformed =>
        MeaningPreserved({i \in DOMAIN tproperty.output_constraints :
                             tproperty.output_constraints[i].bound = 0})

----------------------------------------------------------------------------
(* propagate_bounds.py: evaluate_bounds_naive *)

\* w.table.where(w.table.values >= 0, 0) and where(... <= 0, 0)
PosPart(x) == IF x >= 0 THEN x ELSE 0
NegPart(x) == IF x <= 0 THEN x ELSE 0

\* one turn of the loop: by_pos + by_neg (its rows min and max exchanged)
\* + b, then where(bounds_before_relu >= 0, 0)
BoundsThrough(w, b, current_bounds) ==
    LET before_relu_min ==
            [c \in DOMAIN w.columns |->
                FoldSum([r \in DOMAIN w.index |->
                    current_bounds.min[r] * PosPart(w.values[r][c])
                    + current_bounds.max[r] * NegPart(w.values[r][c])])
                + b.values[1][c]]
        before_relu_max ==
            [c \in DOMAIN w.columns |->
                FoldSum([r \in DOMAIN w.index |->
                    current_bounds.max[r] * PosPart(w.values[r][c])
                    + current_bounds.min[r] * NegPart(w.values[r][c])])
                + b.values[1][c]]
    IN  [min |-> [c \in DOMAIN w.columns |-> PosPart(before_relu_min[c])],
         max |-> [c \in DOMAIN w.columns |-> PosPart(before_relu_max[c])]]

\* the loop over zip(network.weights, network.biases[1:]) from table i on:
\* the bounds of the layers i, i+1, ...
RECURSIVE BoundsFrom(_, _, _)
BoundsFrom(n, i, current_bounds) ==
    IF i > Len(n.weights) THEN <<>>
    ELSE LET next_bounds == BoundsThrough(n.weights[i], n.biases[i + 1],
                                          current_bounds)
         IN  <<next_bounds>> \o BoundsFrom(n, i + 1, next_bounds)

\* evaluate_bounds_naive(network, input_bounds): the dict NeuronId ->
\* {min, max} over all layers; input_bounds maps each input to {min, max}
evaluate_bounds_naive(n, input_bounds) ==
    LET ids == input_ids(n)
        inputs == [min |-> [k \in DOMAIN ids |-> input_bounds[ids[k]].min],
                   max |-> [k \in DOMAIN ids |-> input_bounds[ids[k]].max]]
        all_bounds == <<inputs>> \o BoundsFrom(n, 1, inputs)
    IN  [x \in UNION {LayerIds(n, l) : l \in 0..(layers_count(n) - 1)} |->
            LET l == CHOOSE l \in 0..(layers_count(n) - 1) :
                         x \in LayerIds(n, l)
                k == PosOf(Ids(B(n, l)), x)
            IN  [min |-> all_bounds[l + 1].min[k],
                 max |-> all_bounds[l + 1].max[k]]]

BoundsNetworks ==
    OriginalNetworks
    \cup {CompleteAbstractionLeftToRight(n) : n \in OriginalNetworks}

InitBounds ==
    /\ orig \in BoundsNetworks
    /\ net = orig
    /\ pre = orig
    /\ lastOp = NoOp
    /\ counter = [l \in 2..3 |-> 1]
    /\ uprop = NoProperty /\ uresult = NoProperty
    /\ ubefore = NoBounds /\ uafter = NoBounds
    /\ CegarIdle /\ TransIdle

\* evaluate_bounds_naive on the network with bounds min <= max of its input
EvaluateBoundsCall ==
    \E lo \in InputValues : \E hi \in {v \in InputValues : lo <= v} :
        LET input_bounds == [x \in Range(input_ids(net)) |->
                                [min |-> lo, max |-> hi]]
        IN  /\ Uncalled
            /\ outcome' = [op |-> "evaluate_bounds_naive",
                           input_bounds |-> input_bounds,
                           result |-> evaluate_bounds_naive(net, input_bounds)]
            /\ UNCHANGED <<layerVars, updVars, cegarVars, transVars>>

SpecBounds == InitBounds /\ [][EvaluateBoundsCall]_vars

\* the input assignments inside the bounds the call was given
AssignmentsInside ==
    {inputs \in [DOMAIN input_ids(net) -> (-2)..3] :
        \A k \in DOMAIN inputs :
            /\ outcome.input_bounds[input_ids(net)[k]].min <= inputs[k]
            /\ inputs[k] <= outcome.input_bounds[input_ids(net)[k]].max}

\* the value Network.evaluate computes for x is inside the interval
\* returned for x, for every neuron x of the layers L
ValuesInside(L) ==
    \A inputs \in AssignmentsInside :
    \A l \in L : \A x \in LayerIds(net, l) :
        LET v == evaluate_intermediate(net, inputs)[x]
        IN  outcome.result[x].min <= v /\ v <= outcome.result[x].max

\* C29: for a network with identity input and output activations and ReLU
\* hidden layers and every input assignment inside the given input bounds,
\* the value Network.evaluate computes for each hidden and each output
\* neuron lies within the [min, max] interval evaluate_bounds_naive returns
\* for that neuron
C29_NaiveBoundsSound ==
    IsCall("evaluate_bounds_naive") =>
        ValuesInside(1..(layers_count(net) - 1))

\* the intervals of the hidden neurons hold the values
HiddenBoundsSound ==
    IsCall("evaluate_bounds_naive") =>
        ValuesInside(1..(layers_count(net) - 2))

----------------------------------------------------------------------------
(* refine.py: refine_until_not_satisfying called on its own, with the
   statistics it collects.  net is new_network, roundNet the network given,
   batch the steps of the current round still to apply; outcome holds
   num_refine_steps and steps_for_stats, the RefinementSteps as they were
   applied, and the statistics returned *)

RefinementStatitistics(did_refine, num_steps, steps) ==
    [did_refine |-> did_refine, num_steps |-> num_steps, steps |-> steps]

\* the lists of spurious examples given: none, or one input
ExampleLists == {<<>>} \cup {<< <<x>> >> : x \in InputValues}

InitUntil ==
    /\ orig \in CegarNetworks
    /\ net = CompleteAbstractionLeftToRight(orig)
    /\ pre = net
    /\ lastOp = NoOp
    /\ counter = [l \in 2..3 |-> 1]
    /\ uprop = NoProperty /\ uresult = NoProperty
    /\ ubefore = NoBounds /\ uafter = NoBounds
    /\ pc = "ru_strategy" /\ status = "UNKNOWN"
    /\ policy \in [name : PolicyNames, k : {1, MaxPerStep}]
    /\ until = TRUE
    /\ test_property \in {CegarProperty(-5), CegarProperty(1)}
    /\ examples \in ExampleLists
    /\ query_result = [value |-> "SAT",
                       witness |-> IF examples = <<>> THEN <<0>>
                                   ELSE examples[1]]
    /\ batch = <<>>
    /\ calls = 0 /\ roundNet = net /\ origChecks = 0 /\ applied = 0
    /\ tproperty = NoProperty /\ tresult = NoResult
    /\ outcome = [op |-> "refine_until_not_satisfying",
                  num_refine_steps |-> 0, steps_for_stats |-> <<>>,
                  applied_steps |-> <<>>, stats |-> NoResult]

\* the head of the `while True` loop when the policy returns no step: the
\* statistics of a call that did nothing are returned with new_network
UntilNoSteps ==
    /\ pc = "ru_strategy"
    /\ \E b \in StrategySteps(net) :
          /\ b.steps = <<>>
          /\ counter' = b.counters
    /\ outcome' = [outcome EXCEPT
                      !.stats = RefinementStatitistics(FALSE, 0, <<>>)]
    /\ pc' = "returned"
    /\ UNCHANGED <<orig, net, pre, lastOp, updVars, transVars, status,
                   policy, until, test_property, examples, query_result,
                   batch, calls, roundNet, origChecks, applied>>

\* the head of the loop when the policy returns steps
UntilBatch ==
    /\ pc = "ru_strategy"
    /\ \E b \in StrategySteps(net) :
          /\ b.steps # <<>>
          /\ CountersWithin(b.counters)
          /\ batch' = b.steps
          /\ counter' = b.counters
    /\ pc' = "ru_step"
    /\ UNCHANGED <<orig, net, pre, lastOp, updVars, transVars, outcome,
                   status, policy, until, test_property, examples,
                   query_result, calls, roundNet, origChecks, applied>>

\* the statistics code after refine_layer: with parts given and the target
\* still among the sources of the outgoing table, parts.append(target)
\* acts on the list of the step
StepAfterStats(n, layer_index, step) ==
    IF /\ ~step.parts_none
       /\ HasLabel(Srcs(W(n, layer_index)), step.target_neuron)
    THEN [step EXCEPT !.parts = Append(@, step.target_neuron)]
    ELSE step

\* the statistics after the step st was applied and gave the network n
CollectStats(st, n) ==
    IF st.kind = "refine"
    THEN [outcome EXCEPT
             !.num_refine_steps = @ + 1,
             !.steps_for_stats = Append(@, StepAfterStats(n, st.layer,
                                                          st.step)),
             !.applied_steps = Append(@, st.step)]
    ELSE outcome

\* one turn of the loop over the steps: the step is applied, the
\* statistics are collected, the examples are checked
UntilStep ==
    /\ pc = "ru_step"
    /\ ~IsErr(ApplyStep(net, Head(batch)))
    /\ net' = ApplyStep(net, Head(batch))
    /\ applied' = applied + 1
    /\ LET collected == CollectStats(Head(batch), net')
       IN  IF SomeExampleFails(net', examples, test_property)
           THEN /\ pc' = "returned"
                /\ batch' = <<>>
                /\ outcome' = [collected EXCEPT !.stats =
                      RefinementStatitistics(TRUE,
                          collected.num_refine_steps,
                          collected.steps_for_stats)]
           ELSE /\ batch' = Tail(batch)
                /\ pc' = IF Tail(batch) = <<>> THEN "ru_strategy"
                         ELSE "ru_step"
                /\ outcome' = collected
    /\ UNCHANGED <<orig, pre, lastOp, counter, updVars, transVars, status,
                   policy, until, test_property, examples, query_result,
                   calls, roundNet, origChecks>>

NextUntil ==
    \/ UntilNoSteps
    \/ UntilBatch
    \/ UntilStep

SpecUntil == InitUntil /\ [][NextUntil]_vars

\* the listed step is the applied step: the same target, and the parts it
\* was applied with at the head of its list
SameStep(listed, step) ==
    /\ listed.target_neuron = step.target_neuron
    /\ listed.parts_none = step.parts_none
    /\ Len(listed.parts) >= Len(step.parts)
    /\ SubSeq(listed.parts, 1, Len(step.parts)) = step.parts

\* C30: when refine_until_not_satisfying returns after applying at least
\* one step, also when it returns because the policy yields no further
\* steps in a later round, the statistics have did_refine = True, num_steps
\* the number of RefinementSteps applied over all rounds and steps those
\* RefinementSteps in order; did_refine = False is returned only when the
\* returned network is the input network
C30_StatisticsMatch ==
    pc = "returned" =>
        /\ applied >= 1 =>
              /\ outcome.stats.did_refine
              /\ outcome.stats.num_steps = Len(outcome.applied_steps)
              /\ Len(outcome.stats.steps) = Len(outcome.applied_steps)
              /\ \A i \in DOMAIN outcome.stats.steps :
                    SameStep(outcome.stats.steps[i],
                             outcome.applied_steps[i])
        /\ ~outcome.stats.did_refine => net = roundNet

\* the statistics of a return from the loop over the steps match what was
\* applied
ReturnFromStepMatches ==
    (pc = "returned" /\ outcome.stats.did_refine) =>
        /\ applied >= 1
        /\ outcome.stats.num_steps = Len(outcome.applied_steps)
        /\ Len(outcome.stats.steps) = Len(outcome.applied_steps)
        /\ \A i \in DOMAIN outcome.stats.steps :
              SameStep(outcome.stats.steps[i], outcome.applied_steps[i])

====
